---- MODULE Spec2Model ----
(***************************************************************************)
(* A model of nexus3_exporter.py (NexusToReposiliteSyncer): the paginated  *)
(* discovery operations, the reconciliation of the two sources, the        *)
(* sequential cache-warm strategy (Strategy A), the single-asset download  *)
(* and the worker pool of the filesystem export (Strategy B), and the      *)
(* validator.                                                              *)
(*                                                                         *)
(* The remote servers are the environment: every response is chosen        *)
(* nondeterministically when the request is answered.                      *)
(***************************************************************************)
EXTENDS Integers, Sequences, FiniteSets, TLC

VARIABLES
    \* ---- paginated discovery (one call of one get_all_* operation)
    op,                 \* which discovery operation runs
    dpc,                \* its position: "request", "waiting", "sleep", "done", "raised"
    continuation_token, \* the local continuation_token
    sent_token,         \* the continuationToken parameter of the request in flight
    asset_paths,        \* the local asset_paths (path operations)
    download_info,      \* the local download_info (download-info operations)
    n_requests,         \* observer: page requests issued so far (saturating)
    n_pages,            \* observer: pages answered with status 200 and a JSON object (saturating)
    items_served,       \* observer: sum of the per-page asset counts of those pages
    valid_served,       \* observer: how many of those assets carry the fields the operation keeps
    tokenless_pages,    \* observer: pages answered without a usable continuation token (saturating)
    failed_page,        \* observer: a page failed (status, transport, body not JSON)
    acc_before_failure, \* observer: the records accumulated when that page failed
    \* ---- reconciliation (sync_all_artifacts, sync_all_artifacts_enhanced, sync_by_gav),
    \*      two runs of the same pipeline that are given the same source responses
    pipeline,           \* which pipeline runs
    selection,          \* the API selection: use_assets_api_only / use_components_api_only
    from_assets,        \* what the flat source's discovery returned
    from_components,    \* what the component source's (or the GAV search's) discovery returned
    reconciled,         \* per run: the pipeline's asset_paths / download_info after Step 1
    rpc,                \* per run: "discovered", "reconciled", "handed", "aborted"
    report,             \* per run: the assets_only and components_only sets logged
    \* ---- Strategy A (_process_asset_paths, request_artifact_in_reposilite)
    a_input,            \* the asset_paths argument
    a_i,                \* the loop's i: the record being processed
    apc,                \* position: "request", "waiting", "count", "append", "total",
                        \*           "sleep", "done", "raised"
    rate_limit,         \* args.rate_limit
    total_artifacts,    \* self.total_artifacts
    success_count,      \* self.success_count
    failed_count,       \* self.failed_count
    failed_paths,       \* self.failed_paths
    a_result,           \* (success, message) returned by request_artifact_in_reposilite
    probes,             \* observer: the paths probed so far, in order
    in_flight,          \* observer: HEAD requests sent and not yet answered
    last_response,      \* observer: the answer to the record's probe
    sleeps,             \* observer: rate-limit sleeps completed
    a_before,           \* observer: the statistics when the record's probe was sent
    \* ---- Strategy B, one worker (download_single_asset)
    asset_info,         \* the asset_info argument: path, and 'size' when the key is there
    preserve_structure, \* args.preserve_structure
    fs,                 \* the export directory: destination path -> file
    dlpc,               \* position: "start", "downloading", "done"
    dl_result,          \* the (success, message) returned
    dl_requests,        \* observer: download requests issued
    mkdir_failed,       \* observer: creating the parent directories raised
    fs_before,          \* observer: the export directory when the worker started
    dl_response,        \* observer: the answer to the worker's download request
    \* ---- the validator (validate_sync_completeness), called twice on the same list
    v_input,            \* the asset_paths argument
    target,             \* the target repository: path -> its answer to a HEAD request
    v_run,              \* which of the two calls runs
    v_i,                \* the loop's i
    vpc,                \* position: "call", "request", "waiting", "sleep", "return", "done"
    missing_files,      \* the local missing_files
    validation_errors,  \* the local validation_errors
    v_returned,         \* per call: the (is_complete, missing_files, validation_errors) returned
    v_probes,           \* observer, per call: the paths probed, in order
    \* ---- Strategy B, the pool (export_artifacts_to_filesystem) under main
    export_parallel_downloads, \* args.export_parallel_downloads
    export_input,       \* the download_info argument
    bpc,                \* the main thread: "parse", "rejected", "enter", "submit", "collect",
                        \*   "summary", "returned", "shutdown", "handler", "exited"
    task,               \* per record: "new", "queued", "running", "done", "collected"
    outcome,            \* per record: what its future holds once done
    export_stats,       \* the local export_stats
    interrupted,        \* a KeyboardInterrupt was raised in the main thread
    summary,            \* the counters of the summary printed, as (label, value) lines
    handed,             \* observer, per record: how often a worker took it
    late_requests,      \* observer: records whose download request went out after the interrupt
    queued_at_interrupt, \* observer: records waiting in the pool's queue at the interrupt
    \* ---- main and the pipeline entry points
    entry,              \* the entry point the command line selects
    confirmation,       \* --yes, or the answer typed at the prompt
    m_selection,        \* which sources the command line selects
    validate_mode,      \* --validate-after-sync / --validate-only
    export_only,        \* args.export_only
    mpc,                \* "start", "connectivity", "discover", "check", "output",
                        \*   "transfer", "validate", "finish", "exited"
    m_i,                \* index of the next discovery call of the entry point
    connectivity,       \* what the connectivity test was answered
    source_state,       \* per discovery call: "unqueried", "complete", "partial", "raised"
    found,              \* per discovery call: it returned at least one record
    requested,          \* observer: the phases that issued a request
    exit_code,          \* the process exit code, -1 while running
    ended_by,           \* observer: why the process ended
    processed,          \* observer: the transfer step has counted a record
    \* ---- coordinate resolution (get_all_gavs_from_nexus, one asset)
    c_asset,            \* the asset of the page being looked at
    cpc,                \* "asset" before the loop body, "done" after it
    unique_gavs,        \* the local unique_gavs
    \* ---- the tree builder (_build_tree_from_paths)
    t_input,            \* the paths argument
    tpc,                \* "start", "loop", "returned", "raised"
    t_sorted,           \* sorted(paths)
    t_i,                \* index of the next path of the sorted list
    tree,               \* the local tree
    \* ---- GAV-scoped discovery (get_all_asset_paths_for_gavs)
    gavs,               \* the gavs argument, in the order the loop meets them
    g_i,                \* index of the current coordinate
    g_token,            \* the local continuation_token
    g_page,             \* observer: requests issued for the current coordinate
    gpc,                \* "request", "waiting", "sleep", "return", "done"
    all_asset_paths,    \* the local all_asset_paths
    g_result,           \* the list returned
    g_log,              \* observer: the requests and sleeps so far, in order
    g_seen              \* observer: the paths the source has served

discVars == <<op, dpc, continuation_token, sent_token, asset_paths, download_info,
              n_requests, n_pages, items_served, valid_served, tokenless_pages,
              failed_page, acc_before_failure>>

reconVars == <<pipeline, selection, from_assets, from_components, reconciled, rpc,
               report>>

aVars == <<a_input, a_i, apc, rate_limit, total_artifacts, success_count, failed_count,
           failed_paths, a_result, probes, in_flight, last_response, sleeps, a_before>>

dlVars == <<asset_info, preserve_structure, fs, dlpc, dl_result, dl_requests,
            mkdir_failed, fs_before, dl_response>>

vVars == <<v_input, target, v_run, v_i, vpc, missing_files, validation_errors,
           v_returned, v_probes>>

bVars == <<export_parallel_downloads, export_input, bpc, task, outcome, export_stats,
           interrupted, summary, handed, late_requests, queued_at_interrupt>>

mVars == <<entry, confirmation, m_selection, validate_mode, export_only, mpc, m_i,
           connectivity, source_state, found, requested, exit_code, ended_by, processed>>

cVars == <<c_asset, cpc, unique_gavs>>

tVars == <<t_input, tpc, t_sorted, t_i, tree>>

gVars == <<gavs, g_i, g_token, g_page, gpc, all_asset_paths, g_result, g_log, g_seen>>

vars == <<discVars, reconVars, aVars, dlVars, vVars, bVars, mVars, cVars, tVars, gVars>>

\* the variables of the other parts, left alone by one part's steps
nonDiscVars == <<reconVars, aVars, dlVars, vVars, bVars, mVars, cVars, tVars, gVars>>
nonReconVars == <<discVars, aVars, dlVars, vVars, bVars, mVars, cVars, tVars, gVars>>
nonAVars == <<discVars, reconVars, dlVars, vVars, bVars, mVars, cVars, tVars, gVars>>
nonDlVars == <<discVars, reconVars, aVars, vVars, bVars, mVars, cVars, tVars, gVars>>
nonVVars == <<discVars, reconVars, aVars, dlVars, bVars, mVars, cVars, tVars, gVars>>
nonBVars == <<discVars, reconVars, aVars, dlVars, vVars, mVars, cVars, tVars, gVars>>
nonMVars == <<discVars, reconVars, aVars, dlVars, vVars, bVars, cVars, tVars, gVars>>
nonCVars == <<discVars, reconVars, aVars, dlVars, vVars, bVars, mVars, tVars, gVars>>
nonTVars == <<discVars, reconVars, aVars, dlVars, vVars, bVars, mVars, cVars, gVars>>
nonGVars == <<discVars, reconVars, aVars, dlVars, vVars, bVars, mVars, cVars, tVars>>

-----------------------------------------------------------------------------
(* Bounds of the model *)

\* most assets on one page of a source
MaxItems == 2
\* most assets a source serves during one discovery operation
MaxRecords == 3
\* the observers' request and page counters count up to this and then stay
MaxCount == 3
\* most records one source's discovery returns to the reconciliation
MaxSource == 2
\* most records handed to Strategy A
MaxInput == 2
\* largest byte length of a file, a declared size or a response body
MaxBytes == 2
\* most records handed to the export pool
MaxJobs == 2
MaxPathLen == 7
MaxTreeTokens == 3
MaxTreePaths == 2
MaxBoth == 1
MaxGavPages == 2
MaxProcessed == 3

-----------------------------------------------------------------------------
(* Values *)

\* Python's None for a continuation token (key absent, or null)
NoToken == "None"
\* what a response can carry as continuationToken; "" is an empty string
Tokens == {NoToken, "", "t1", "t2"}

\* Python truthiness of a string-or-None value
Truthy(v) == v # NoToken /\ v # ""

Paths == {"a", "b"}

\* One asset object of a page: 'path' and 'downloadUrl' ("" when absent or empty)
\* and 'contentLength'. An asset is complete, or lacks its path, or (on path "a")
\* lacks its downloadUrl.
AssetKinds ==
    {k \in [path : Paths \cup {""}, downloadUrl : {"", "u"}, contentLength : {1}] :
        k.path = "a" \/ k.downloadUrl = "u"}

RECURSIVE SeqsUpTo(_, _)
\* every sequence over S of length at most n
SeqsUpTo(S, n) ==
    IF n = 0 THEN {<<>>}
    ELSE LET shorter == SeqsUpTo(S, n - 1)
         IN  shorter \cup {Append(s, x) : s \in {t \in shorter : Len(t) = n - 1}, x \in S}

\* the 'items' of a flat asset page
FlatPages == SeqsUpTo(AssetKinds, MaxItems)

RECURSIVE ComponentSeqs(_, _)
\* the 'items' of a component page: at most c components, each [assets |-> <<...>>],
\* carrying at most n assets together
ComponentSeqs(c, n) ==
    IF c = 0 THEN {<<>>}
    ELSE {<<>>} \cup UNION {
            {<<[assets |-> a]>> \o rest : rest \in ComponentSeqs(c - 1, n - Len(a))}
            : a \in SeqsUpTo(AssetKinds, n)}

NestedPages == ComponentSeqs(MaxItems, MaxItems)

FlatOps == {"get_all_asset_paths_from_nexus", "get_all_download_info_from_assets_api"}
NestedOps == {"get_all_asset_paths_from_components_api",
              "get_all_download_info_from_components_api"}
InfoOps == {"get_all_download_info_from_assets_api",
            "get_all_download_info_from_components_api"}
DiscoveryOps == FlatOps \cup NestedOps

\* What the source can answer to one page request:
\*   "ok"        status 200, the body a JSON object {items, continuationToken}
\*   "status"    a status other than 200
\*   "transport" requests raises ConnectionError / Timeout / another RequestException
\*   "notjson"   status 200, the body is not JSON
\*   "notobject" status 200, the body is JSON but no object (an array, a string)
\*   "baditem"   status 200, a JSON object whose items hold something that is no object
FailureKinds == {"status", "transport", "notjson", "notobject", "baditem"}

Responses(o) ==
    [kind : {"ok"}, items : IF o \in NestedOps THEN NestedPages ELSE FlatPages,
     token : Tokens]
    \cup [kind : FailureKinds, items : {<<>>}, token : {NoToken}]

-----------------------------------------------------------------------------
(* The page loop of the get_all_* operations *)

RECURSIVE Flatten(_)
\* [a for c in page_items for a in c.get('assets', [])]
Flatten(components) ==
    IF components = <<>> THEN <<>>
    ELSE Head(components).assets \o Flatten(Tail(components))

\* the assets one page enumerates: its items, or its components' nested assets
PageAssets(o, items) == IF o \in NestedOps THEN Flatten(items) ELSE items

\* a mutant of Keeps: every asset is kept
KeepsAll(o, asset) == TRUE

\* the test guarding the append: asset.get('path') [and asset.get('downloadUrl')]
Keeps(o, asset) ==
    /\ Truthy(asset.path)
    /\ o \in InfoOps => Truthy(asset.downloadUrl)

\* what is appended for a kept asset
RecordOf(o, asset) ==
    IF o \in InfoOps
    THEN [path |-> asset.path, downloadUrl |-> asset.downloadUrl,
          size |-> asset.contentLength]
    ELSE asset.path

RECURSIVE PageRecords(_, _)
\* the records the two nested for-loops append for one page, in page order
PageRecords(o, assets) ==
    IF assets = <<>> THEN <<>>
    ELSE (IF Keeps(o, Head(assets)) THEN <<RecordOf(o, Head(assets))>> ELSE <<>>)
         \o PageRecords(o, Tail(assets))

RECURSIVE NestedAssetCount(_)
\* len([a for c in page_items for a in c.get('assets', [])]), as the page's log
\* line counts the nested assets
NestedAssetCount(components) ==
    IF components = <<>> THEN 0
    ELSE Len(Head(components).assets) + NestedAssetCount(Tail(components))

\* the per-page item count: len(page_items) of a flat page, the nested assets of a
\* component page
ItemCount(o, items) == IF o \in NestedOps THEN NestedAssetCount(items) ELSE Len(items)

\* the observer's count of the assets of a list that carry a non-empty path and,
\* for a download-info operation, a non-empty downloadUrl
UsableCount(o, assets) ==
    Cardinality({i \in DOMAIN assets :
        /\ assets[i].path # ""
        /\ o \in InfoOps => assets[i].downloadUrl # ""})

RECURSIVE NestedUsableCount(_, _)
NestedUsableCount(o, components) ==
    IF components = <<>> THEN 0
    ELSE UsableCount(o, Head(components).assets) + NestedUsableCount(o, Tail(components))

PageUsableCount(o, items) ==
    IF o \in NestedOps THEN NestedUsableCount(o, items) ELSE UsableCount(o, items)

\* the accumulator of the running operation
Acc == IF op \in InfoOps THEN download_info ELSE asset_paths

\* a saturating observer counter
Bump(n) == IF n < MaxCount THEN n + 1 ELSE n

\* the exceptions the loop's except clauses catch (they break out of the loop)
CaughtKinds == {"transport", "notjson"}

\* no discovery operation is running
IdleDisc ==
    /\ op = "none"
    /\ dpc = "idle"
    /\ continuation_token = NoToken
    /\ sent_token = NoToken
    /\ asset_paths = <<>>
    /\ download_info = <<>>
    /\ n_requests = 0
    /\ n_pages = 0
    /\ items_served = 0
    /\ valid_served = 0
    /\ tokenless_pages = 0
    /\ failed_page = FALSE
    /\ acc_before_failure = <<>>

InitDisc ==
    /\ op \in DiscoveryOps
    /\ dpc = "request"
    /\ continuation_token = NoToken
    /\ sent_token = NoToken
    /\ asset_paths = <<>>
    /\ download_info = <<>>
    /\ n_requests = 0
    /\ n_pages = 0
    /\ items_served = 0
    /\ valid_served = 0
    /\ tokenless_pages = 0
    /\ failed_page = FALSE
    /\ acc_before_failure = <<>>

\* a mutant of SendPageRequest: a token once sent is sent again
SendPageRequestStale ==
    /\ dpc = "request"
    /\ dpc' = "waiting"
    /\ sent_token' = IF Truthy(sent_token) THEN sent_token
                     ELSE IF Truthy(continuation_token) THEN continuation_token
                     ELSE NoToken
    /\ n_requests' = Bump(n_requests)
    /\ UNCHANGED <<op, continuation_token, asset_paths, download_info, n_pages,
                   items_served, valid_served, tokenless_pages, failed_page,
                   acc_before_failure>>
    /\ UNCHANGED nonDiscVars

\* the top of the while loop up to the call of nexus_session.get: the parameters
\* carry the continuation token only when it is truthy
SendPageRequest ==
    /\ dpc = "request"
    /\ dpc' = "waiting"
    /\ sent_token' = IF Truthy(continuation_token) THEN continuation_token ELSE NoToken
    /\ n_requests' = Bump(n_requests)
    /\ UNCHANGED <<op, continuation_token, asset_paths, download_info, n_pages,
                   items_served, valid_served, tokenless_pages, failed_page,
                   acc_before_failure>>
    /\ UNCHANGED nonDiscVars

\* the response is a page: append its records, take its token, leave the loop
\* when the token is not truthy, else go on to the sleep
ReceivePage(resp) ==
    LET assets == PageAssets(op, resp.items)
        recs == PageRecords(op, assets)
    IN  /\ resp.kind = "ok"
        /\ items_served + ItemCount(op, resp.items) <= MaxRecords
        /\ asset_paths' = IF op \in InfoOps THEN asset_paths ELSE asset_paths \o recs
        /\ download_info' = IF op \in InfoOps THEN download_info \o recs ELSE download_info
        /\ continuation_token' = resp.token
        /\ dpc' = IF Truthy(resp.token) THEN "sleep" ELSE "done"
        /\ n_pages' = Bump(n_pages)
        /\ items_served' = items_served + ItemCount(op, resp.items)
        /\ valid_served' = valid_served + PageUsableCount(op, resp.items)
        /\ tokenless_pages' = IF Truthy(resp.token) THEN tokenless_pages
                              ELSE Bump(tokenless_pages)
        /\ UNCHANGED <<op, sent_token, n_requests, failed_page, acc_before_failure>>

\* a status other than 200, or an exception one of the except clauses catches:
\* break, and the function returns what it has
ReceiveFailure(resp) ==
    /\ resp.kind = "status" \/ resp.kind \in CaughtKinds
    /\ dpc' = "done"
    /\ failed_page' = TRUE
    /\ acc_before_failure' = Acc
    /\ UNCHANGED <<op, continuation_token, sent_token, asset_paths, download_info,
                   n_requests, n_pages, items_served, valid_served, tokenless_pages>>

\* data.get / asset.get on a value that is no dict raises AttributeError, which
\* no except clause of the loop names: the exception leaves the operation
ReceiveUncaught(resp) ==
    /\ resp.kind \in FailureKinds \ ({"status"} \cup CaughtKinds)
    /\ dpc' = "raised"
    /\ failed_page' = TRUE
    /\ acc_before_failure' = Acc
    /\ UNCHANGED <<op, continuation_token, sent_token, asset_paths, download_info,
                   n_requests, n_pages, items_served, valid_served, tokenless_pages>>

ReceivePageResponse ==
    /\ dpc = "waiting"
    /\ UNCHANGED nonDiscVars
    /\ \E resp \in Responses(op) :
          \/ ReceivePage(resp)
          \/ ReceiveFailure(resp)
          \/ ReceiveUncaught(resp)

\* page += 1; time.sleep(0.2)
SleepBetweenPages ==
    /\ dpc = "sleep"
    /\ dpc' = "request"
    /\ UNCHANGED <<op, continuation_token, sent_token, asset_paths, download_info,
                   n_requests, n_pages, items_served, valid_served, tokenless_pages,
                   failed_page, acc_before_failure>>
    /\ UNCHANGED nonDiscVars

NextDisc ==
    \/ SendPageRequest
    \/ ReceivePageResponse
    \/ SleepBetweenPages

-----------------------------------------------------------------------------
(* Step 1 of the pipelines: combining what the sources returned *)

Pipelines == {"sync_all_artifacts", "sync_all_artifacts_enhanced", "sync_by_gav"}
Selections == {"both", "use_assets_api_only", "use_components_api_only"}

\* two runs of the tool
Runs == {1, 2}

ReconPaths == {"a", "b", "c"}

\* the download-info dictionaries the enhanced pipeline handles
InfoRecords == [path : ReconPaths, downloadUrl : {"u"}, size : {1, 2}]

\* what a discovery operation can return to pipeline p: any list of paths, or of
\* download-info dictionaries (duplicates included)
DiscoveryResults(p) ==
    SeqsUpTo(IF p = "sync_all_artifacts_enhanced" THEN InfoRecords ELSE ReconPaths,
             MaxSource)

\* the path of an element of a pipeline's list
PathOf(p, rec) == IF p = "sync_all_artifacts_enhanced" THEN rec.path ELSE rec

\* set(some_list)
SetOf(list) == {list[i] : i \in DOMAIN list}

\* list(some_set): Python fixes no iteration order for a set of strings (string
\* hashes are salted per process), so any order of the elements can come out
ListsOf(S) ==
    {l \in [1..Cardinality(S) -> S] : \A i, j \in 1..Cardinality(S) : l[i] = l[j] => i = j}

RECURSIVE DedupFrom(_, _, _)
\* the loop over all_info with seen_paths and download_info
DedupFrom(all_info, seen_paths, out) ==
    IF all_info = <<>> THEN out
    ELSE LET info == Head(all_info)
         IN  IF info.path \notin seen_paths
             THEN DedupFrom(Tail(all_info), seen_paths \cup {info.path}, Append(out, info))
             ELSE DedupFrom(Tail(all_info), seen_paths, out)

\* a mutant of Dedup: a later dictionary for a path already seen replaces the kept one
DedupOverwrite(all_info) ==
    LET kept == DedupFrom(all_info, {}, <<>>)
        last(path) == CHOOSE i \in DOMAIN all_info :
                         /\ all_info[i].path = path
                         /\ \A j \in DOMAIN all_info : all_info[j].path = path => j <= i
    IN  [k \in DOMAIN kept |-> all_info[last(kept[k].path)]]

\* "Combine and deduplicate based on path" of sync_all_artifacts_enhanced
Dedup(all_info) == DedupFrom(all_info, {}, <<>>)

\* the lists Step 1 of pipeline p can end with, given what the sources returned
Combined(p, sel, fa, fc) ==
    IF p = "sync_by_gav" THEN ListsOf(SetOf(fc))
    ELSE IF sel = "use_assets_api_only" THEN {fa}
    ELSE IF sel = "use_components_api_only" THEN {fc}
    ELSE IF p = "sync_all_artifacts" THEN ListsOf(SetOf(fa \o fc))
    ELSE {Dedup(fa \o fc)}

\* nothing is reported when only one source is queried
NoReport == [assets_only |-> {}, components_only |-> {}]

\* a mutant of DiscrepancyReport: the first set is not reduced by the second
DiscrepancyReportUnreduced(p, fa, fc) ==
    LET assets_paths == {PathOf(p, fa[i]) : i \in DOMAIN fa}
        components_paths == {PathOf(p, fc[i]) : i \in DOMAIN fc}
    IN  [assets_only |-> assets_paths,
         components_only |-> components_paths \ assets_paths]

\* "Report on differences": the set differences of the two sources' paths
DiscrepancyReport(p, fa, fc) ==
    LET assets_paths == {PathOf(p, fa[i]) : i \in DOMAIN fa}
        components_paths == {PathOf(p, fc[i]) : i \in DOMAIN fc}
    IN  [assets_only |-> assets_paths \ components_paths,
         components_only |-> components_paths \ assets_paths]

\* no reconciliation is running
IdleRecon ==
    /\ pipeline = "none"
    /\ selection = "none"
    /\ from_assets = <<>>
    /\ from_components = <<>>
    /\ reconciled = [r \in Runs |-> <<>>]
    /\ rpc = [r \in Runs |-> "idle"]
    /\ report = [r \in Runs |-> NoReport]

\* the discovery calls have returned; a source that is not queried returned nothing
InitRecon ==
    /\ pipeline \in Pipelines
    /\ selection \in IF pipeline = "sync_by_gav" THEN {"both"} ELSE Selections
    /\ from_assets \in IF pipeline = "sync_by_gav" \/ selection = "use_components_api_only"
                       THEN {<<>>} ELSE DiscoveryResults(pipeline)
    /\ from_components \in IF selection = "use_assets_api_only"
                           THEN {<<>>} ELSE DiscoveryResults(pipeline)
    /\ reconciled = [r \in Runs |-> <<>>]
    /\ rpc = [r \in Runs |-> "discovered"]
    /\ report = [r \in Runs |-> NoReport]

\* Step 1 of run r ends: the list is combined and, when both sources were
\* queried, the differences are reported; an empty list aborts the run
Reconcile(r) ==
    /\ rpc[r] = "discovered"
    /\ \E list \in Combined(pipeline, selection, from_assets, from_components) :
          /\ reconciled' = [reconciled EXCEPT ![r] = list]
          /\ rpc' = [rpc EXCEPT ![r] = IF list = <<>> THEN "aborted" ELSE "reconciled"]
    /\ report' = [report EXCEPT ![r] =
                     IF pipeline # "sync_by_gav" /\ selection = "both"
                     THEN DiscrepancyReport(pipeline, from_assets, from_components)
                     ELSE NoReport]
    /\ UNCHANGED <<pipeline, selection, from_assets, from_components>>
    /\ UNCHANGED nonReconVars

\* run r passes the list on: to _process_asset_paths, export_artifacts_to_filesystem
\* and validate_sync_completeness
HandOver(r) ==
    /\ rpc[r] = "reconciled"
    /\ rpc' = [rpc EXCEPT ![r] = "handed"]
    /\ UNCHANGED <<pipeline, selection, from_assets, from_components, reconciled, report>>
    /\ UNCHANGED nonReconVars

NextRecon == \E r \in Runs : Reconcile(r) \/ HandOver(r)

-----------------------------------------------------------------------------
(* Strategy A: _process_asset_paths and request_artifact_in_reposilite *)

\* what the target can answer to one HEAD request: a status code, a timeout
\* (requests.Timeout) or another transport failure (requests.RequestException)
HeadStatuses == {200, 204, 401, 403, 404, 500}
HeadResponses ==
    [kind : {"status"}, code : HeadStatuses, error : {""}]
    \cup [kind : {"timeout"}, code : {0}, error : {""}]
    \cup [kind : {"error"}, code : {0}, error : {"connection refused"}]

\* the (success, message) request_artifact_in_reposilite returns
ClassifyHead(resp) ==
    IF resp.kind = "timeout" THEN [success |-> FALSE, message |-> "Timeout"]
    ELSE IF resp.kind = "error"
    THEN [success |-> FALSE, message |-> "Request error: " \o resp.error]
    ELSE IF resp.code = 200 THEN [success |-> TRUE, message |-> "Success"]
    ELSE IF resp.code = 404
    THEN [success |-> FALSE, message |-> "Not found (may not exist in Nexus mirror)"]
    ELSE IF resp.code = 401 THEN [success |-> FALSE, message |-> "Authentication required"]
    ELSE IF resp.code = 403 THEN [success |-> FALSE, message |-> "Access forbidden"]
    ELSE [success |-> FALSE, message |-> "HTTP " \o ToString(resp.code)]

\* the rate limits the command line accepts: --rate-limit is any int, default 5
RateLimits == {-1, 0, 5}

NoResponse == [kind |-> "none", code |-> 0, error |-> ""]
NoResult == [success |-> FALSE, message |-> ""]

\* the statistics of the syncer
Statistics ==
    [total |-> total_artifacts, success |-> success_count, failed |-> failed_count,
     failed_paths |-> failed_paths]

\* Strategy A is not running
IdleA ==
    /\ a_input = <<>>
    /\ a_i = 0
    /\ apc = "idle"
    /\ rate_limit = 5
    /\ total_artifacts = 0
    /\ success_count = 0
    /\ failed_count = 0
    /\ failed_paths = <<>>
    /\ a_result = NoResult
    /\ probes = <<>>
    /\ in_flight = 0
    /\ last_response = NoResponse
    /\ sleeps = 0
    /\ a_before = [total |-> 0, success |-> 0, failed |-> 0, failed_paths |-> <<>>]

\* a fresh syncer (__init__) enters _process_asset_paths with some list
InitA ==
    /\ a_input \in SeqsUpTo(Paths, MaxInput)
    /\ a_i = 1
    /\ apc = IF a_input = <<>> THEN "done" ELSE "request"
    /\ rate_limit \in RateLimits
    /\ total_artifacts = 0
    /\ success_count = 0
    /\ failed_count = 0
    /\ failed_paths = <<>>
    /\ a_result = NoResult
    /\ probes = <<>>
    /\ in_flight = 0
    /\ last_response = NoResponse
    /\ sleeps = 0
    /\ a_before = [total |-> 0, success |-> 0, failed |-> 0, failed_paths |-> <<>>]

\* the loop body up to reposilite_session.head(url): the HEAD request goes out
SendProbe ==
    /\ apc = "request"
    /\ apc' = "waiting"
    /\ probes' = Append(probes, a_input[a_i])
    /\ in_flight' = in_flight + 1
    /\ a_before' = Statistics
    /\ UNCHANGED <<a_input, a_i, rate_limit, total_artifacts, success_count, failed_count,
                   failed_paths, a_result, last_response, sleeps>>
    /\ UNCHANGED nonAVars

\* the call blocks until the answer or the exception; the function returns
ReceiveProbeAnswer ==
    /\ apc = "waiting"
    /\ \E resp \in HeadResponses :
          /\ last_response' = resp
          /\ a_result' = ClassifyHead(resp)
    /\ in_flight' = in_flight - 1
    /\ apc' = "count"
    /\ UNCHANGED <<a_input, a_i, rate_limit, total_artifacts, success_count, failed_count,
                   failed_paths, probes, sleeps, a_before>>
    /\ UNCHANGED nonAVars

\* a mutant of CountOutcome: the failure branch counts a success as well
CountOutcomeBoth ==
    /\ apc = "count"
    /\ success_count' = success_count + 1
    /\ failed_count' = IF a_result.success THEN failed_count ELSE failed_count + 1
    /\ apc' = IF a_result.success THEN "total" ELSE "append"
    /\ UNCHANGED <<a_input, a_i, rate_limit, total_artifacts, failed_paths, a_result,
                   probes, in_flight, last_response, sleeps, a_before>>
    /\ UNCHANGED nonAVars

\* if success: self.success_count += 1   else: self.failed_count += 1
CountOutcome ==
    /\ apc = "count"
    /\ success_count' = IF a_result.success THEN success_count + 1 ELSE success_count
    /\ failed_count' = IF a_result.success THEN failed_count ELSE failed_count + 1
    /\ apc' = IF a_result.success THEN "total" ELSE "append"
    /\ UNCHANGED <<a_input, a_i, rate_limit, total_artifacts, failed_paths, a_result,
                   probes, in_flight, last_response, sleeps, a_before>>
    /\ UNCHANGED nonAVars

\* a mutant of AppendFailure: the pair is put in front of the list
AppendFailureInFront ==
    /\ apc = "append"
    /\ failed_paths' = <<(<<a_input[a_i], a_result.message>>)>> \o failed_paths
    /\ apc' = "total"
    /\ UNCHANGED <<a_input, a_i, rate_limit, total_artifacts, success_count, failed_count,
                   a_result, probes, in_flight, last_response, sleeps, a_before>>
    /\ UNCHANGED nonAVars

\* self.failed_paths.append((path, message))
AppendFailure ==
    /\ apc = "append"
    /\ failed_paths' = Append(failed_paths, <<a_input[a_i], a_result.message>>)
    /\ apc' = "total"
    /\ UNCHANGED <<a_input, a_i, rate_limit, total_artifacts, success_count, failed_count,
                   a_result, probes, in_flight, last_response, sleeps, a_before>>
    /\ UNCHANGED nonAVars

\* self.total_artifacts += 1
CountTotal ==
    /\ apc = "total"
    /\ total_artifacts' = total_artifacts + 1
    /\ apc' = "sleep"
    /\ UNCHANGED <<a_input, a_i, rate_limit, success_count, failed_count, failed_paths,
                   a_result, probes, in_flight, last_response, sleeps, a_before>>
    /\ UNCHANGED nonAVars

\* time.sleep(1.0 / self.args.rate_limit), then the next record or the end of the
\* loop; 1.0 / 0 raises ZeroDivisionError and time.sleep of a negative number
\* raises ValueError, and either exception leaves _process_asset_paths
RateLimitSleep ==
    /\ apc = "sleep"
    /\ IF rate_limit > 0
       THEN /\ sleeps' = sleeps + 1
            /\ a_i' = a_i + 1
            /\ apc' = IF a_i + 1 > Len(a_input) THEN "done" ELSE "request"
       ELSE /\ apc' = "raised"
            /\ UNCHANGED <<sleeps, a_i>>
    /\ UNCHANGED <<a_input, rate_limit, total_artifacts, success_count, failed_count,
                   failed_paths, a_result, probes, in_flight, last_response, a_before>>
    /\ UNCHANGED nonAVars

NextA ==
    \/ SendProbe
    \/ ReceiveProbeAnswer
    \/ CountOutcome
    \/ AppendFailure
    \/ CountTotal
    \/ RateLimitSleep

\* _process_asset_paths is called once more on the same syncer, with another
\* list: the counters of the syncer are kept
CallAgain ==
    /\ apc = "done"
    /\ \E list \in SeqsUpTo(Paths, MaxInput) \ {<<>>} :
          /\ total_artifacts + Len(list) <= MaxProcessed
          /\ a_input' = list
    /\ a_i' = 1
    /\ apc' = "request"
    /\ probes' = <<>>
    /\ sleeps' = 0
    /\ UNCHANGED <<rate_limit, total_artifacts, success_count, failed_count, failed_paths,
                   a_result, in_flight, last_response, a_before>>
    /\ UNCHANGED nonAVars

NextAgain ==
    \/ NextA
    \/ CallAgain

-----------------------------------------------------------------------------
(* Strategy B, one worker: download_single_asset *)

\* asset paths, as their slash-separated segments
ExportPaths == {<<"d", "a">>, <<"a">>}

\* Python's None as a 'size': asset.get('contentLength', 0) of an asset whose
\* contentLength is a JSON null. It equals no byte length.
NoneSize == -1

\* the asset_info dictionaries: 'size' may be missing (has_size = FALSE), a number
\* or None
AssetInfos ==
    {info \in [path : ExportPaths, has_size : BOOLEAN, size : 0..MaxBytes \cup {NoneSize}] :
        ~info.has_size => info.size = 0}

\* a destination: no file, or a file of some byte length; written tells whether
\* this worker opened it for writing
NoFile == [exists |-> FALSE, size |-> 0, written |-> FALSE]
OldFiles == [exists : {TRUE}, size : 0..MaxBytes, written : {FALSE}]

\* --preserve-structure is store_true with default=True: it is always True
PreserveChoices == {TRUE}

\* Path(export_base_path) / path, or / os.path.basename(path)
TargetFilePath(preserve, path) == IF preserve THEN path ELSE <<path[Len(path)]>>

\* asset_info.get('size', 0)
ExpectedSize(info) == IF info.has_size THEN info.size ELSE 0

\* a mutant of AlreadyExists: the test "expected_size > 0" is missing
AlreadyExistsAnySize(file, expected_size) ==
    file.exists /\ file.size = expected_size

\* target_file_path.exists() and existing_size == expected_size and expected_size > 0
AlreadyExists(file, expected_size) ==
    /\ file.exists
    /\ file.size = expected_size
    /\ expected_size > 0

\* what the source can answer to the download request: status 200 with a body of
\* some length whose stream may break before its end, another status, or an
\* exception of the request itself
DownloadResponses ==
    [kind : {"status"}, code : {200}, body : 0..MaxBytes, broken : BOOLEAN]
    \cup [kind : {"status"}, code : {404, 500}, body : {0}, broken : {FALSE}]
    \cup [kind : {"error"}, code : {0}, body : {0}, broken : {FALSE}]

NoDownloadResult == [success |-> FALSE, message |-> ""]
NoDownloadResponse == [kind |-> "none", code |-> 0, body |-> 0, broken |-> FALSE]

\* no worker is running
IdleDl ==
    /\ asset_info = [path |-> <<"a">>, has_size |-> FALSE, size |-> 0]
    /\ preserve_structure = TRUE
    /\ fs = [p \in ExportPaths |-> NoFile]
    /\ dlpc = "idle"
    /\ dl_result = NoDownloadResult
    /\ dl_requests = 0
    /\ mkdir_failed = FALSE
    /\ fs_before = [p \in ExportPaths |-> NoFile]
    /\ dl_response = NoDownloadResponse

\* a worker starts on some asset_info, the export directory holding any files
InitDl ==
    /\ asset_info \in AssetInfos
    /\ preserve_structure \in PreserveChoices
    /\ fs \in [ExportPaths -> {NoFile} \cup OldFiles]
    /\ dlpc = "start"
    /\ dl_result = NoDownloadResult
    /\ dl_requests = 0
    /\ mkdir_failed = FALSE
    /\ fs_before = fs
    /\ dl_response = NoDownloadResponse

\* the destination of the running worker
Target == TargetFilePath(preserve_structure, asset_info.path)

\* mkdir(parents=True, exist_ok=True) raises (no permission, a parent that is a
\* file): the except clause returns a failure; no request is made
PrepareFails ==
    /\ dlpc = "start"
    /\ ~fs[Target].exists
    /\ mkdir_failed' = TRUE
    /\ dl_result' = [success |-> FALSE, message |-> "Download error: mkdir"]
    /\ dlpc' = "done"
    /\ UNCHANGED <<asset_info, preserve_structure, fs, dl_requests, fs_before,
                   dl_response>>
    /\ UNCHANGED nonDlVars

\* the destination is computed and its directories exist; a file of the expected
\* size is skipped, anything else is requested from its downloadUrl
SkipOrRequest ==
    /\ dlpc = "start"
    /\ IF AlreadyExists(fs[Target], ExpectedSize(asset_info))
       THEN /\ dl_result' = [success |-> TRUE, message |-> "Already exists"]
            /\ dlpc' = "done"
            /\ UNCHANGED dl_requests
       ELSE /\ dl_requests' = dl_requests + 1
            /\ dlpc' = "downloading"
            /\ UNCHANGED dl_result
    /\ UNCHANGED <<asset_info, preserve_structure, fs, mkdir_failed, fs_before,
                   dl_response>>
    /\ UNCHANGED nonDlVars

\* the (success, message) after a status 200 whose body was written: the size
\* check; "expected_size > 0" on None raises TypeError, which the except clause
\* turns into a failure
SizeVerdict(expected_size, actual_size) ==
    IF expected_size = NoneSize
    THEN [success |-> FALSE,
          message |-> "Download error: '>' not supported between instances of "
                      \o "'NoneType' and 'int'"]
    ELSE IF expected_size > 0 /\ actual_size # expected_size
    THEN [success |-> FALSE,
          message |-> "Size mismatch: expected " \o ToString(expected_size)
                      \o ", got " \o ToString(actual_size)]
    ELSE [success |-> TRUE, message |-> "Downloaded"]

\* a mutant of ReceiveDownload: the file is opened for writing before the status
\* is looked at
ReceiveDownloadOpeningFirst ==
    /\ dlpc = "downloading"
    /\ \E resp \in DownloadResponses :
          /\ dl_response' = resp
          /\ IF resp.kind = "status"
             THEN /\ fs' = [fs EXCEPT ![Target] =
                               [exists |-> TRUE, size |-> resp.body, written |-> TRUE]]
                  /\ dl_result' =
                        IF resp.code # 200
                        THEN [success |-> FALSE,
                              message |-> "HTTP " \o ToString(resp.code)]
                        ELSE IF resp.broken
                        THEN [success |-> FALSE, message |-> "Download error: stream"]
                        ELSE SizeVerdict(ExpectedSize(asset_info), resp.body)
             ELSE /\ UNCHANGED fs
                  /\ dl_result' = [success |-> FALSE, message |-> "Download error: request"]
    /\ dlpc' = "done"
    /\ UNCHANGED <<asset_info, preserve_structure, dl_requests, mkdir_failed, fs_before>>
    /\ UNCHANGED nonDlVars

\* the request is answered: on status 200 the file is opened for writing and the
\* body streamed into it, then its size is checked; a stream that breaks leaves
\* what was written and the except clause returns a failure; another status or an
\* exception of the request returns a failure and writes nothing
ReceiveDownload ==
    /\ dlpc = "downloading"
    /\ \E resp \in DownloadResponses :
          /\ dl_response' = resp
          /\ IF resp.kind = "status" /\ resp.code = 200
             THEN /\ fs' = [fs EXCEPT ![Target] =
                               [exists |-> TRUE, size |-> resp.body, written |-> TRUE]]
                  /\ dl_result' =
                        IF resp.broken
                        THEN [success |-> FALSE, message |-> "Download error: stream"]
                        ELSE SizeVerdict(ExpectedSize(asset_info), resp.body)
             ELSE /\ UNCHANGED fs
                  /\ dl_result' =
                        IF resp.kind = "status"
                        THEN [success |-> FALSE,
                              message |-> "HTTP " \o ToString(resp.code)]
                        ELSE [success |-> FALSE, message |-> "Download error: request"]
    /\ dlpc' = "done"
    /\ UNCHANGED <<asset_info, preserve_structure, dl_requests, mkdir_failed, fs_before>>
    /\ UNCHANGED nonDlVars

NextDl ==
    \/ PrepareFails
    \/ SkipOrRequest
    \/ ReceiveDownload

-----------------------------------------------------------------------------
(* The validator: validate_sync_completeness *)

\* what the target answers to the validator's HEAD request for a path: a status
\* code, or the request raises
ValidatorStatuses == {200, 204, 304, 404, 500}
ValidatorResponses ==
    [kind : {"status"}, code : ValidatorStatuses, error : {""}]
    \cup [kind : {"error"}, code : {0}, error : {"timed out"}]

\* a target whose answers do not change
Targets == [Paths -> ValidatorResponses]

NoReturn == [is_complete |-> FALSE, missing_files |-> <<"-">>, validation_errors |-> <<>>]

\* the validator is not running
IdleV ==
    /\ v_input = <<>>
    /\ target = [p \in Paths |-> [kind |-> "status", code |-> 200, error |-> ""]]
    /\ v_run = 0
    /\ v_i = 0
    /\ vpc = "idle"
    /\ missing_files = <<>>
    /\ validation_errors = <<>>
    /\ v_returned = [r \in Runs |-> NoReturn]
    /\ v_probes = [r \in Runs |-> <<>>]

\* the validator is about to be called on a list the pipeline found non-empty
InitV ==
    /\ v_input \in SeqsUpTo(Paths, MaxInput) \ {<<>>}
    /\ target \in Targets
    /\ v_run = 1
    /\ v_i = 0
    /\ vpc = "call"
    /\ missing_files = <<>>
    /\ validation_errors = <<>>
    /\ v_returned = [r \in Runs |-> NoReturn]
    /\ v_probes = [r \in Runs |-> <<>>]

\* a mutant of CallValidator: the lists of the previous call are kept
CallValidatorKeepingLists ==
    /\ vpc = "call"
    /\ v_i' = 1
    /\ vpc' = "request"
    /\ UNCHANGED <<v_input, target, v_run, missing_files, validation_errors, v_returned,
                   v_probes>>
    /\ UNCHANGED nonVVars

\* the call begins: missing_files = [] and validation_errors = [], and the loop
\* starts at the first path
CallValidator ==
    /\ vpc = "call"
    /\ missing_files' = <<>>
    /\ validation_errors' = <<>>
    /\ v_i' = 1
    /\ vpc' = "request"
    /\ UNCHANGED <<v_input, target, v_run, v_returned, v_probes>>
    /\ UNCHANGED nonVVars

\* reposilite_session.head(url, timeout=10) goes out for the loop's path
SendValidationProbe ==
    /\ vpc = "request"
    /\ v_probes' = [v_probes EXCEPT ![v_run] = Append(@, v_input[v_i])]
    /\ vpc' = "waiting"
    /\ UNCHANGED <<v_input, target, v_run, v_i, missing_files, validation_errors,
                   v_returned>>
    /\ UNCHANGED nonVVars

\* the answer: 404 appends the path to missing_files, a status that is neither 200
\* nor 304 appends (path, "HTTP <code>") to validation_errors, and any exception
\* appends (path, str(e)); 200 and 304 append nothing
ReceiveValidationAnswer ==
    LET path == v_input[v_i]
        resp == target[path]
    IN  /\ vpc = "waiting"
        /\ missing_files' =
              IF resp.kind = "status" /\ resp.code = 404
              THEN Append(missing_files, path) ELSE missing_files
        /\ validation_errors' =
              IF resp.kind = "error"
              THEN Append(validation_errors, <<path, resp.error>>)
              ELSE IF resp.code # 404 /\ resp.code \notin {200, 304}
              THEN Append(validation_errors, <<path, "HTTP " \o ToString(resp.code)>>)
              ELSE validation_errors
        /\ vpc' = "sleep"
        /\ UNCHANGED <<v_input, target, v_run, v_i, v_returned, v_probes>>
        /\ UNCHANGED nonVVars

\* time.sleep(0.05), then the next path or the end of the loop
ValidationSleep ==
    /\ vpc = "sleep"
    /\ v_i' = v_i + 1
    /\ vpc' = IF v_i + 1 > Len(v_input) THEN "return" ELSE "request"
    /\ UNCHANGED <<v_input, target, v_run, missing_files, validation_errors, v_returned,
                   v_probes>>
    /\ UNCHANGED nonVVars

\* a mutant of ReturnValidation: an errored probe makes the verdict incomplete
ReturnValidationStrict ==
    /\ vpc = "return"
    /\ v_returned' = [v_returned EXCEPT ![v_run] =
                         [is_complete |-> Len(missing_files) = 0 /\ Len(validation_errors) = 0,
                          missing_files |-> missing_files,
                          validation_errors |-> validation_errors]]
    /\ IF v_run = 1
       THEN v_run' = 2 /\ vpc' = "call"
       ELSE UNCHANGED v_run /\ vpc' = "done"
    /\ UNCHANGED <<v_input, target, v_i, missing_files, validation_errors, v_probes>>
    /\ UNCHANGED nonVVars

\* return len(missing_files) == 0, missing_files, validation_errors; after the
\* first call the validator is called again on the same list
ReturnValidation ==
    /\ vpc = "return"
    /\ v_returned' = [v_returned EXCEPT ![v_run] =
                         [is_complete |-> Len(missing_files) = 0,
                          missing_files |-> missing_files,
                          validation_errors |-> validation_errors]]
    /\ IF v_run = 1
       THEN v_run' = 2 /\ vpc' = "call"
       ELSE UNCHANGED v_run /\ vpc' = "done"
    /\ UNCHANGED <<v_input, target, v_i, missing_files, validation_errors, v_probes>>
    /\ UNCHANGED nonVVars

NextV ==
    \/ CallValidator
    \/ SendValidationProbe
    \/ ReceiveValidationAnswer
    \/ ValidationSleep
    \/ ReturnValidation

-----------------------------------------------------------------------------
(* Strategy B, the pool: export_artifacts_to_filesystem, and main around it *)

\* the limits of --export-parallel-downloads
MinParallel == 1
MaxParallel == 20

\* the widths the command line is given: below, inside and above the limits
PoolWidths == {MinParallel - 1, MinParallel, MinParallel + 1, MaxParallel + 1}

\* the download-info dictionaries handed to the export
ExportSizes == {1, 2}
ExportRecords == [path : Paths, downloadUrl : {"u"}, size : ExportSizes]

\* what a future can hold. A worker that leaves download_single_asset before the
\* request returns "Already exists" or a "Download error"; an exception raised
\* outside the function's try block leaves the worker and is kept by the future.
NoOutcome == [raised |-> FALSE, success |-> FALSE, message |-> ""]
OutcomesWithoutRequest ==
    {[raised |-> FALSE, success |-> TRUE, message |-> "Already exists"],
     [raised |-> FALSE, success |-> FALSE, message |-> "Download error: mkdir"],
     [raised |-> TRUE, success |-> FALSE, message |-> "KeyError"]}
\* after the request: "Downloaded", or a failure of the request or of the size check
OutcomesAfterRequest ==
    {[raised |-> FALSE, success |-> TRUE, message |-> "Downloaded"],
     [raised |-> FALSE, success |-> FALSE, message |-> "HTTP 404: Not Found"]}

\* export_stats = {'total': len(download_info), 'success': 0, ...}
FreshStats(n) ==
    [total |-> n, success |-> 0, failed |-> 0, already_exists |-> 0, total_bytes |-> 0,
     failed_items |-> <<>>]

\* the records of the input
Jobs == DOMAIN export_input

\* the records whose download is in flight
InFlight == {i \in Jobs : task[i] = "running"}

\* the counters print_export_summary logs
ExportSummaryLines(stats) ==
    << <<"Total files processed", stats.total>>,
       <<"Successfully exported", stats.success>>,
       <<"Already existed", stats.already_exists>>,
       <<"Failed", stats.failed>> >>

\* the counters print_summary logs: those of the syncer, which Strategy A writes
SyncSummaryLines ==
    << <<"Total artifacts processed", total_artifacts>>,
       <<"Successfully cached", success_count>>,
       <<"Failed", failed_count>> >>

\* the export is not running
IdleB ==
    /\ export_parallel_downloads = 5
    /\ export_input = <<>>
    /\ bpc = "idle"
    /\ task = <<>>
    /\ outcome = <<>>
    /\ export_stats = FreshStats(0)
    /\ interrupted = FALSE
    /\ summary = <<>>
    /\ handed = <<>>
    /\ late_requests = {}
    /\ queued_at_interrupt = {}

\* the command line is about to be checked; discovery will hand the export a
\* non-empty list
InitB ==
    /\ export_parallel_downloads \in PoolWidths
    /\ export_input \in SeqsUpTo(ExportRecords, MaxJobs) \ {<<>>}
    /\ bpc = "parse"
    /\ task = [i \in DOMAIN export_input |-> "new"]
    /\ outcome = [i \in DOMAIN export_input |-> NoOutcome]
    /\ export_stats = FreshStats(0)
    /\ interrupted = FALSE
    /\ summary = <<>>
    /\ handed = [i \in DOMAIN export_input |-> 0]
    /\ late_requests = {}
    /\ queued_at_interrupt = {}

\* "Validate parallel downloads": parser.error ends the program for a width
\* outside 1..20
ParseArguments ==
    /\ bpc = "parse"
    /\ bpc' = IF export_parallel_downloads < MinParallel
                 \/ export_parallel_downloads > MaxParallel
              THEN "rejected" ELSE "enter"
    /\ UNCHANGED <<export_parallel_downloads, export_input, task, outcome, export_stats,
                   interrupted, summary, handed, late_requests, queued_at_interrupt>>
    /\ UNCHANGED nonBVars

\* export_artifacts_to_filesystem is entered: export_stats is created and the
\* pool is opened
EnterExport ==
    /\ bpc = "enter"
    /\ export_stats' = FreshStats(Len(export_input))
    /\ bpc' = "submit"
    /\ UNCHANGED <<export_parallel_downloads, export_input, task, outcome, interrupted,
                   summary, handed, late_requests, queued_at_interrupt>>
    /\ UNCHANGED nonBVars

\* executor.submit(download_worker, asset_info) for the next record of the list;
\* after the last one the main thread turns to as_completed
SubmitTask ==
    /\ bpc = "submit"
    /\ LET i == CHOOSE j \in Jobs : task[j] = "new" /\ \A k \in Jobs : k < j => task[k] # "new"
       IN  /\ task' = [task EXCEPT ![i] = "queued"]
           /\ bpc' = IF i = Len(export_input) THEN "collect" ELSE "submit"
    /\ UNCHANGED <<export_parallel_downloads, export_input, outcome, export_stats,
                   interrupted, summary, handed, late_requests, queued_at_interrupt>>
    /\ UNCHANGED nonBVars

\* a mutant of WorkerStart: the pool starts a worker whatever its width
WorkerStartUnbounded(i) ==
    /\ task[i] = "queued"
    /\ \A k \in Jobs : k < i => task[k] # "queued"
    /\ handed' = [handed EXCEPT ![i] = @ + 1]
    /\ \/ /\ task' = [task EXCEPT ![i] = "running"]
          /\ late_requests' = IF interrupted THEN late_requests \cup {i} ELSE late_requests
          /\ UNCHANGED outcome
       \/ \E o \in OutcomesWithoutRequest :
             /\ task' = [task EXCEPT ![i] = "done"]
             /\ outcome' = [outcome EXCEPT ![i] = o]
             /\ UNCHANGED late_requests
    /\ UNCHANGED <<export_parallel_downloads, export_input, bpc, export_stats, interrupted,
                   summary, queued_at_interrupt>>
    /\ UNCHANGED nonBVars

\* a worker thread of the pool takes the oldest queued record, when fewer than
\* max_workers threads are busy, and runs download_single_asset on it: either the
\* download request goes out, or the function ends before any request
WorkerStart(i) ==
    /\ task[i] = "queued"
    /\ \A k \in Jobs : k < i => task[k] # "queued"
    /\ Cardinality(InFlight) < export_parallel_downloads
    /\ handed' = [handed EXCEPT ![i] = @ + 1]
    /\ \/ /\ task' = [task EXCEPT ![i] = "running"]
          /\ late_requests' = IF interrupted THEN late_requests \cup {i} ELSE late_requests
          /\ UNCHANGED outcome
       \/ \E o \in OutcomesWithoutRequest :
             /\ task' = [task EXCEPT ![i] = "done"]
             /\ outcome' = [outcome EXCEPT ![i] = o]
             /\ UNCHANGED late_requests
    /\ UNCHANGED <<export_parallel_downloads, export_input, bpc, export_stats, interrupted,
                   summary, queued_at_interrupt>>
    /\ UNCHANGED nonBVars

\* a mutant of Aggregate: total_bytes is set to the size of the record just
\* exported, so it keeps the size of the export that completed last
AggregateLatestSize(stats, info, o) ==
    IF o.raised
    THEN [stats EXCEPT !.failed = @ + 1,
                       !.failed_items = Append(@, <<info.path, "Exception: " \o o.message>>)]
    ELSE IF ~o.success
    THEN [stats EXCEPT !.failed = @ + 1,
                       !.failed_items = Append(@, <<info.path, o.message>>)]
    ELSE IF o.message = "Already exists"
    THEN [stats EXCEPT !.already_exists = @ + 1]
    ELSE [stats EXCEPT !.success = @ + 1, !.total_bytes = info.size]

\* export_stats after the aggregator's loop body has handled one future
Aggregate(stats, info, o) ==
    IF o.raised
    THEN [stats EXCEPT !.failed = @ + 1,
                       !.failed_items = Append(@, <<info.path, "Exception: " \o o.message>>)]
    ELSE IF ~o.success
    THEN [stats EXCEPT !.failed = @ + 1,
                       !.failed_items = Append(@, <<info.path, o.message>>)]
    ELSE IF o.message = "Already exists"
    THEN [stats EXCEPT !.already_exists = @ + 1]
    ELSE [stats EXCEPT !.success = @ + 1, !.total_bytes = @ + info.size]

\* a mutant of WorkerFinish: the worker counts its own outcome in export_stats
WorkerFinishCounting(i) ==
    /\ task[i] = "running"
    /\ \E o \in OutcomesAfterRequest :
          /\ outcome' = [outcome EXCEPT ![i] = o]
          /\ export_stats' = Aggregate(export_stats, export_input[i], o)
    /\ task' = [task EXCEPT ![i] = "done"]
    /\ UNCHANGED <<export_parallel_downloads, export_input, bpc, interrupted, summary,
                   handed, late_requests, queued_at_interrupt>>
    /\ UNCHANGED nonBVars

\* the download request is answered and download_single_asset returns: the future
\* is done and holds the result
WorkerFinish(i) ==
    /\ task[i] = "running"
    /\ \E o \in OutcomesAfterRequest : outcome' = [outcome EXCEPT ![i] = o]
    /\ task' = [task EXCEPT ![i] = "done"]
    /\ UNCHANGED <<export_parallel_downloads, export_input, bpc, export_stats, interrupted,
                   summary, handed, late_requests, queued_at_interrupt>>
    /\ UNCHANGED nonBVars

\* a mutant of Collect: future.result() is not guarded, so a raised outcome leaves
\* the export
CollectUnguarded(i) ==
    /\ bpc = "collect"
    /\ task[i] = "done"
    /\ task' = [task EXCEPT ![i] = "collected"]
    /\ IF outcome[i].raised
       THEN /\ bpc' = "shutdown"
            /\ UNCHANGED export_stats
       ELSE /\ export_stats' = Aggregate(export_stats, export_input[i], outcome[i])
            /\ bpc' = IF \A k \in Jobs \ {i} : task[k] = "collected"
                      THEN "summary" ELSE "collect"
    /\ UNCHANGED <<export_parallel_downloads, export_input, outcome, interrupted, summary,
                   handed, late_requests, queued_at_interrupt>>
    /\ UNCHANGED nonBVars

\* a mutant of Collect: a skipped record is not counted
CollectIgnoringExisting(i) ==
    /\ bpc = "collect"
    /\ task[i] = "done"
    /\ task' = [task EXCEPT ![i] = "collected"]
    /\ export_stats' = IF outcome[i].message = "Already exists" THEN export_stats
                       ELSE Aggregate(export_stats, export_input[i], outcome[i])
    /\ bpc' = IF \A k \in Jobs \ {i} : task[k] = "collected" THEN "summary" ELSE "collect"
    /\ UNCHANGED <<export_parallel_downloads, export_input, outcome, interrupted, summary,
                   handed, late_requests, queued_at_interrupt>>
    /\ UNCHANGED nonBVars

\* one round of "for i, future in enumerate(as_completed(future_to_asset), 1)":
\* the main thread takes a future that is done and counts its result; after the
\* last future the with block ends
Collect(i) ==
    /\ bpc = "collect"
    /\ task[i] = "done"
    /\ task' = [task EXCEPT ![i] = "collected"]
    /\ export_stats' = Aggregate(export_stats, export_input[i], outcome[i])
    /\ bpc' = IF \A k \in Jobs \ {i} : task[k] = "collected" THEN "summary" ELSE "collect"
    /\ UNCHANGED <<export_parallel_downloads, export_input, outcome, interrupted, summary,
                   handed, late_requests, queued_at_interrupt>>
    /\ UNCHANGED nonBVars

\* self.print_export_summary(export_stats); return export_stats
PrintExportSummary ==
    /\ bpc = "summary"
    /\ summary' = ExportSummaryLines(export_stats)
    /\ bpc' = "returned"
    /\ UNCHANGED <<export_parallel_downloads, export_input, task, outcome, export_stats,
                   interrupted, handed, late_requests, queued_at_interrupt>>
    /\ UNCHANGED nonBVars

\* KeyboardInterrupt is raised in the main thread while it submits or collects:
\* the exception leaves the loop and reaches the end of the with block
Interrupt ==
    /\ bpc \in {"submit", "collect"}
    /\ interrupted' = TRUE
    /\ queued_at_interrupt' = {i \in Jobs : task[i] = "queued"}
    /\ bpc' = "shutdown"
    /\ UNCHANGED <<export_parallel_downloads, export_input, task, outcome, export_stats,
                   summary, handed, late_requests>>
    /\ UNCHANGED nonBVars

\* the with block's exit is executor.shutdown(wait=True): it cancels nothing and
\* returns when the queue is empty and every worker has ended; then the exception
\* goes on to main
ShutdownPool ==
    /\ bpc = "shutdown"
    /\ \A i \in Jobs : task[i] \notin {"queued", "running"}
    /\ bpc' = "handler"
    /\ UNCHANGED <<export_parallel_downloads, export_input, task, outcome, export_stats,
                   interrupted, summary, handed, late_requests, queued_at_interrupt>>
    /\ UNCHANGED nonBVars

\* main's except clause: syncer.print_summary(), sys.exit(1)
HandleInterrupt ==
    /\ bpc = "handler"
    /\ summary' = SyncSummaryLines
    /\ bpc' = "exited"
    /\ UNCHANGED <<export_parallel_downloads, export_input, task, outcome, export_stats,
                   interrupted, handed, late_requests, queued_at_interrupt>>
    /\ UNCHANGED nonBVars

NextB ==
    \/ ParseArguments
    \/ EnterExport
    \/ SubmitTask
    \/ \E i \in Jobs : WorkerStart(i)
    \/ \E i \in Jobs : WorkerFinish(i)
    \/ \E i \in Jobs : Collect(i)
    \/ PrintExportSummary
    \/ Interrupt
    \/ ShutdownPool
    \/ HandleInterrupt

-----------------------------------------------------------------------------
(* main and the pipeline entry points: confirmation, connectivity test,
   discovery source by source, transfer, validation, exit code *)

SyncEntries == {"sync_all_artifacts", "sync_all_artifacts_enhanced", "sync_by_gav"}
Entries == SyncEntries \cup {"generate_tree_view", "list_gavs"}

\* --yes given, or the answer typed at the prompt
Confirmations == {"yes_flag", "y", "n"}

ValidateModes == {"none", "validate_after_sync", "validate_only"}

\* what the GET on the assets endpoint of test_nexus_connectivity can produce
ConnectivityStatuses == {200, 401, 403, 404, 500}
ConnectivityResponses ==
    [kind : {"response"}, status_code : ConnectivityStatuses]
        \cup [kind : {"ConnectionError", "Timeout", "Exception"}, status_code : {0}]
NoConnectivity == [kind |-> "none", status_code |-> 0]

\* a mutant of ConnectivityOk: only an unreachable source is fatal
ConnectivityOkAnyStatus(resp) == resp.kind = "response"

\* test_nexus_connectivity: 200 is a success, 401 and 403 are failures, any other
\* status is logged and the run continues, any exception is a failure
ConnectivityOk(resp) ==
    /\ resp.kind = "response"
    /\ resp.status_code \notin {401, 403}

\* the discovery calls of each entry point, in program order
SourcesOf(e, sel) ==
    CASE e \in {"sync_all_artifacts", "sync_all_artifacts_enhanced"} ->
            IF sel = "both" THEN <<"assets", "components">>
            ELSE IF sel = "assets" THEN <<"assets">> ELSE <<"components">>
      [] e = "sync_by_gav" -> <<"gavs", "gav_paths">>
      [] e = "generate_tree_view" -> <<"assets">>
      [] OTHER -> <<"gavs">>

AllSources == {"assets", "components", "gavs", "gav_paths"}

\* how one discovery call ends: every page answered, a page failure caught by the
\* call (it returns what it has), or an exception the call does not catch;
\* get_all_asset_paths_for_gavs catches every Exception
DiscoveryOutcomes(s) ==
    IF s = "gav_paths" THEN {"complete", "partial"}
    ELSE {"complete", "partial", "raised"}

IdleMain ==
    /\ entry = "sync_all_artifacts"
    /\ confirmation = "yes_flag"
    /\ m_selection = "both"
    /\ validate_mode = "none"
    /\ export_only = FALSE
    /\ mpc = "idle"
    /\ m_i = 1
    /\ connectivity = NoConnectivity
    /\ source_state = [s \in AllSources |-> "unqueried"]
    /\ found = [s \in AllSources |-> FALSE]
    /\ requested = {}
    /\ exit_code = -1
    /\ ended_by = "none"
    /\ processed = FALSE

InitMain ==
    /\ entry \in Entries
    /\ confirmation \in (IF entry \in SyncEntries THEN Confirmations ELSE {"yes_flag"})
    /\ m_selection \in (IF entry \in {"sync_all_artifacts", "sync_all_artifacts_enhanced"}
                        THEN Selections ELSE {"both"})
    /\ validate_mode \in (IF entry \in SyncEntries THEN ValidateModes ELSE {"none"})
    /\ export_only \in (IF entry = "sync_all_artifacts_enhanced" THEN BOOLEAN ELSE {FALSE})
    /\ mpc = "start"
    /\ m_i = 1
    /\ connectivity = NoConnectivity
    /\ source_state = [s \in AllSources |-> "unqueried"]
    /\ found = [s \in AllSources |-> FALSE]
    /\ requested = {}
    /\ exit_code = -1
    /\ ended_by = "none"
    /\ processed = FALSE

\* sys.exit(code)
Exit(code, why) ==
    /\ mpc' = "exited"
    /\ exit_code' = code
    /\ ended_by' = why

\* main: the listing and tree modes start at once; the other modes ask for a
\* confirmation unless --yes was given, and exit with 0 when it is declined
Confirm ==
    /\ mpc = "start"
    /\ IF entry \in SyncEntries /\ confirmation = "n"
       THEN Exit(0, "declined")
       ELSE mpc' = "connectivity" /\ UNCHANGED <<exit_code, ended_by>>
    /\ UNCHANGED <<entry, confirmation, m_selection, validate_mode, export_only, m_i,
                   connectivity, source_state, found, requested>>
    /\ UNCHANGED processed
    /\ UNCHANGED nonMVars

\* Step 0 of every entry point: a failed connectivity test returns False (or exits)
\* before any discovery call
TestConnectivity ==
    /\ mpc = "connectivity"
    /\ \E resp \in ConnectivityResponses :
        /\ connectivity' = resp
        /\ IF ConnectivityOk(resp)
           THEN mpc' = "discover" /\ UNCHANGED <<exit_code, ended_by>>
           ELSE Exit(1, "connectivity_failed")
    /\ UNCHANGED <<entry, confirmation, m_selection, validate_mode, export_only, m_i,
                   source_state, found, requested>>
    /\ UNCHANGED processed
    /\ UNCHANGED nonMVars

\* one discovery call, from its first page request to its return or its exception
Discover ==
    /\ mpc = "discover"
    /\ LET sources == SourcesOf(entry, m_selection)
           s == sources[m_i]
       IN \E result \in DiscoveryOutcomes(s), f \in BOOLEAN :
            /\ result = "raised" => ~f
            /\ source_state' = [source_state EXCEPT ![s] = result]
            /\ found' = [found EXCEPT ![s] = f]
            /\ requested' = requested \cup {"discovery"}
            /\ IF result = "raised"
               THEN Exit(1, "exception") /\ UNCHANGED m_i
               ELSE IF entry = "sync_by_gav" /\ ~f
               THEN Exit(1, "empty_discovery") /\ UNCHANGED m_i
               ELSE IF m_i < Len(sources)
               THEN m_i' = m_i + 1 /\ UNCHANGED <<mpc, exit_code, ended_by>>
               ELSE /\ mpc' = IF entry = "list_gavs" THEN "output" ELSE "check"
                    /\ UNCHANGED <<m_i, exit_code, ended_by>>
    /\ UNCHANGED <<entry, confirmation, m_selection, validate_mode, export_only,
                   connectivity>>
    /\ UNCHANGED processed
    /\ UNCHANGED nonMVars

\* some discovery call returned at least one record
AnyFound == \E s \in AllSources : found[s]

\* a mutant of CheckFound: an empty list goes on to the transfer step
CheckFoundProceeding ==
    /\ mpc = "check"
    /\ mpc' = IF entry = "generate_tree_view" THEN "output" ELSE "transfer"
    /\ UNCHANGED <<exit_code, ended_by>>
    /\ UNCHANGED <<entry, confirmation, m_selection, validate_mode, export_only, m_i,
                   connectivity, source_state, found, requested>>
    /\ UNCHANGED processed
    /\ UNCHANGED nonMVars

\* "if not asset_paths" / "if not download_info": nothing found returns False
CheckFound ==
    /\ mpc = "check"
    /\ IF ~AnyFound
       THEN Exit(1, "empty_discovery")
       ELSE /\ mpc' = IF entry = "generate_tree_view" THEN "output" ELSE "transfer"
            /\ UNCHANGED <<exit_code, ended_by>>
    /\ UNCHANGED <<entry, confirmation, m_selection, validate_mode, export_only, m_i,
                   connectivity, source_state, found, requested>>
    /\ UNCHANGED processed
    /\ UNCHANGED nonMVars

\* the tree or the coordinate list is written; a failure to write ends with 1
WriteOutput ==
    /\ mpc = "output"
    /\ \E ok \in BOOLEAN :
        IF ok THEN Exit(0, "completed") ELSE Exit(1, "exception")
    /\ UNCHANGED <<entry, confirmation, m_selection, validate_mode, export_only, m_i,
                   connectivity, source_state, found, requested>>
    /\ UNCHANGED processed
    /\ UNCHANGED nonMVars

\* the transfer step runs: the enhanced pipeline exports, the others warm the
\* cache unless --validate-only
TransferRuns ==
    \/ entry = "sync_by_gav"
    \/ entry = "sync_all_artifacts_enhanced"
    \/ entry = "sync_all_artifacts" /\ validate_mode # "validate_only"

\* the transfer step (export_artifacts_to_filesystem and/or _process_asset_paths)
Transfer ==
    /\ mpc = "transfer"
    /\ IF TransferRuns
       THEN /\ requested' = requested \cup {"transfer"}
            /\ \E raised \in BOOLEAN :
                IF raised THEN Exit(1, "exception")
                ELSE mpc' = "validate" /\ UNCHANGED <<exit_code, ended_by>>
       ELSE /\ mpc' = "validate"
            /\ UNCHANGED <<requested, exit_code, ended_by>>
    /\ UNCHANGED <<entry, confirmation, m_selection, validate_mode, export_only, m_i,
                   connectivity, source_state, found>>
    /\ processed' = TransferRuns
    /\ UNCHANGED nonMVars

\* the validation step runs
ValidationRuns ==
    /\ entry \in {"sync_all_artifacts", "sync_all_artifacts_enhanced"}
    /\ validate_mode # "none"
    /\ ~export_only

\* validate_sync_completeness, when asked for
Validate ==
    /\ mpc = "validate"
    /\ requested' = IF ValidationRuns THEN requested \cup {"validation"} ELSE requested
    /\ mpc' = "finish"
    /\ UNCHANGED <<entry, confirmation, m_selection, validate_mode, export_only, m_i,
                   connectivity, source_state, found, exit_code, ended_by>>
    /\ UNCHANGED processed
    /\ UNCHANGED nonMVars

\* the summary is printed, the entry point returns True and main exits with 0
Finish ==
    /\ mpc = "finish"
    /\ Exit(0, "completed")
    /\ UNCHANGED <<entry, confirmation, m_selection, validate_mode, export_only, m_i,
                   connectivity, source_state, found, requested>>
    /\ UNCHANGED processed
    /\ UNCHANGED nonMVars

\* Ctrl-C inside main's try block: the handler prints the summary and exits with 1
KeyboardInterruptInRun ==
    /\ entry \in SyncEntries
    /\ mpc \in {"connectivity", "discover", "check", "transfer", "validate", "finish"}
    /\ Exit(1, "interrupted")
    /\ UNCHANGED <<entry, confirmation, m_selection, validate_mode, export_only, m_i,
                   connectivity, source_state, found, requested>>
    /\ UNCHANGED processed
    /\ UNCHANGED nonMVars

NextMain ==
    \/ Confirm
    \/ TestConnectivity
    \/ Discover
    \/ CheckFound
    \/ WriteOutput
    \/ Transfer
    \/ Validate
    \/ Finish
    \/ KeyboardInterruptInRun

-----------------------------------------------------------------------------
(* Coordinate resolution: the body of the per-asset loop of
   get_all_gavs_from_nexus, applied to one asset of a page *)

\* a path is a sequence of tokens: "/" or a piece of text without a slash
PathTokens == {"/", "a", "b"}

\* the path of the specification's example
ExamplePath ==
    <<"com", "/", "acme", "/", "widgets", "/", "widget-core", "/", "1.2.3", "/",
      "widget-core-1.2.3.jar">>

CoordPaths == SeqsUpTo(PathTokens, MaxPathLen) \cup {ExamplePath}

\* what an asset carries as 'format' (NoToken: the key is absent)
Formats == {"maven2", "Maven2", "npm", NoToken}

\* what an asset carries as 'maven2': nothing, all three fields, or an empty version
Maven2Fields ==
    { [groupId |-> NoToken, artifactId |-> NoToken, version |-> NoToken],
      [groupId |-> "org.demo", artifactId |-> "lib", version |-> "2.0"],
      [groupId |-> "org.demo", artifactId |-> "lib", version |-> ""] }

CoordAssets == [format : Formats, maven2 : Maven2Fields, path : CoordPaths]

\* str(asset.get('format', '')).lower()
LowerFormat(f) == IF f = NoToken THEN "" ELSE IF f = "Maven2" THEN "maven2" ELSE f

RECURSIVE SplitFrom(_, _, _)
\* path.split('/'), token by token: cur is the segment being read
SplitFrom(p, cur, acc) ==
    IF p = <<>> THEN Append(acc, cur)
    ELSE IF Head(p) = "/" THEN SplitFrom(Tail(p), "", Append(acc, cur))
    ELSE SplitFrom(Tail(p), cur \o Head(p), acc)

Split(p) == SplitFrom(p, "", <<>>)

RECURSIVE Join(_, _)
\* sep.join(parts)
Join(parts, sep) ==
    IF parts = <<>> THEN ""
    ELSE IF Len(parts) = 1 THEN parts[1]
    ELSE parts[1] \o sep \o Join(Tail(parts), sep)

\* no coordinate added for the asset
NoCoordinate == <<>>

\* a mutant of ResolveFromPath: only an empty group fails
ResolveFromPathGroupOnly(path) ==
    LET segments == Split(path)
        n == Len(segments)
    IN  IF n >= 4
        THEN LET parsed_version == segments[n - 1]
                 parsed_artifact_id == segments[n - 2]
                 group_parts == SubSeq(segments, 1, n - 3)
                 parsed_group_id == IF group_parts # <<>> THEN Join(group_parts, ".")
                                    ELSE NoToken
             IN  IF Truthy(parsed_group_id)
                 THEN <<parsed_group_id, parsed_artifact_id, parsed_version>>
                 ELSE NoCoordinate
        ELSE NoCoordinate

\* the fallback: .../<groupId as path>/<artifactId>/<version>/<file>
ResolveFromPath(path) ==
    LET segments == Split(path)
        n == Len(segments)
    IN  IF n >= 4
        THEN LET parsed_version == segments[n - 1]
                 parsed_artifact_id == segments[n - 2]
                 group_parts == SubSeq(segments, 1, n - 3)
                 parsed_group_id == IF group_parts # <<>> THEN Join(group_parts, ".")
                                    ELSE NoToken
             IN  IF Truthy(parsed_group_id) /\ Truthy(parsed_artifact_id)
                       /\ Truthy(parsed_version)
                 THEN <<parsed_group_id, parsed_artifact_id, parsed_version>>
                 ELSE NoCoordinate
        ELSE NoCoordinate

\* the loop body for one asset: other formats are skipped, the maven2 fields are
\* used when all three are set, else the path is parsed
ResolveAsset(asset) ==
    IF LowerFormat(asset.format) # "maven2" THEN NoCoordinate
    ELSE LET m2 == asset.maven2
             group_id == m2.groupId
             artifact_id == m2.artifactId
             version == m2.version
         IN  IF Truthy(group_id) /\ Truthy(artifact_id) /\ Truthy(version)
             THEN <<group_id, artifact_id, version>>
             ELSE IF asset.path = <<>> THEN NoCoordinate
             ELSE ResolveFromPath(asset.path)

IdleCoord ==
    /\ c_asset = [format |-> NoToken,
                  maven2 |-> [groupId |-> NoToken, artifactId |-> NoToken,
                              version |-> NoToken],
                  path |-> <<>>]
    /\ cpc = "idle"
    /\ unique_gavs = {}

InitCoord ==
    /\ c_asset \in CoordAssets
    /\ cpc = "asset"
    /\ unique_gavs = {}

\* one iteration of "for asset in page_items"
CollectGav ==
    /\ cpc = "asset"
    /\ LET gav == ResolveAsset(c_asset)
       IN  unique_gavs' = IF gav = NoCoordinate THEN unique_gavs
                          ELSE unique_gavs \cup {gav}
    /\ cpc' = "done"
    /\ UNCHANGED c_asset
    /\ UNCHANGED nonCVars

NextCoord == CollectGav

-----------------------------------------------------------------------------
(* The tree builder: _build_tree_from_paths on a list of paths *)

TreeTokens == {"/", "a"}

\* the paths of the specification's example: a/b/c.jar, a/b/d.jar, a/e.jar
TreeExamplePaths ==
    { <<"a", "/", "b", "/", "c.jar">>, <<"a", "/", "b", "/", "d.jar">>,
      <<"a", "/", "e.jar">> }

\* the discovery operations return no empty path
TreePaths == SeqsUpTo(TreeTokens, MaxTreeTokens) \ {<<>>}

\* the lists given to the builder: short lists of short paths, and the example's
\* paths in every order, with and without a repeated path
TreeInputs ==
    SeqsUpTo(TreePaths, MaxTreePaths)
        \cup { s \in SeqsUpTo(TreeExamplePaths, MaxTreePaths + 2) :
                 {s[i] : i \in DOMAIN s} = TreeExamplePaths }

\* the order of the tokens' first characters: '/' < 'a' < 'b' < 'c' < 'd' < 'e'
Rank(tok) ==
    CASE tok = "/" -> 1
      [] tok = "a" -> 2
      [] tok = "b" -> 3
      [] tok = "c.jar" -> 4
      [] tok = "d.jar" -> 5
      [] OTHER -> 6

RECURSIVE PathLess(_, _)
\* p < q as Python compares strings
PathLess(p, q) ==
    IF q = <<>> THEN FALSE
    ELSE IF p = <<>> THEN TRUE
    ELSE IF Head(p) = Head(q) THEN PathLess(Tail(p), Tail(q))
    ELSE Rank(Head(p)) < Rank(Head(q))

RECURSIVE InsertSorted(_, _)
InsertSorted(p, list) ==
    IF list = <<>> THEN <<p>>
    ELSE IF PathLess(p, Head(list)) THEN <<p>> \o list
    ELSE <<Head(list)>> \o InsertSorted(p, Tail(list))

RECURSIVE Sorted(_)
\* sorted(paths)
Sorted(paths) ==
    IF paths = <<>> THEN <<>>
    ELSE InsertSorted(Head(paths), Sorted(Tail(paths)))

\* A tree is the set of its nodes <<names from the root, kind>>: a "dir" is a
\* nested dict, a "file" is a key whose value is None.
KindAt(t, node) ==
    IF <<node, "dir">> \in t THEN "dir"
    ELSE IF <<node, "file">> \in t THEN "file"
    ELSE "absent"

\* node is below or at the node top
Under(node, top) ==
    /\ Len(node) >= Len(top)
    /\ SubSeq(node, 1, Len(top)) = top

\* d[parts[-1]] = None: whatever the key held is replaced by the marker
MarkFile(t, node) ==
    {e \in t : ~Under(e[1], node)} \cup {<<node, "file">>}

RECURSIVE InsertParts(_, _, _)
\* the body of the outer loop from the dict at node d on: setdefault for every
\* part but the last, then the assignment of the marker. When setdefault returns
\* the None of a file, the next statement raises (AttributeError or TypeError).
InsertParts(t, d, parts) ==
    IF Len(parts) = 1
    THEN [tree |-> MarkFile(t, Append(d, parts[1])), raised |-> FALSE]
    ELSE LET node == Append(d, Head(parts))
             kind == KindAt(t, node)
         IN  IF kind = "file" THEN [tree |-> t, raised |-> TRUE]
             ELSE InsertParts(IF kind = "absent" THEN t \cup {<<node, "dir">>} ELSE t,
                              node, Tail(parts))

IdleTree ==
    /\ t_input = <<>>
    /\ tpc = "idle"
    /\ t_sorted = <<>>
    /\ t_i = 1
    /\ tree = {}

InitTree ==
    /\ t_input \in TreeInputs
    /\ tpc = "start"
    /\ t_sorted = <<>>
    /\ t_i = 1
    /\ tree = {}

\* tree = {} and sorted(paths)
SortPaths ==
    /\ tpc = "start"
    /\ t_sorted' = Sorted(t_input)
    /\ tpc' = "loop"
    /\ UNCHANGED <<t_input, t_i, tree>>
    /\ UNCHANGED nonTVars

\* one iteration of "for path in sorted(paths)"
InsertPath ==
    /\ tpc = "loop"
    /\ t_i <= Len(t_sorted)
    /\ LET r == InsertParts(tree, <<>>, Split(t_sorted[t_i]))
       IN  IF r.raised
           THEN tpc' = "raised" /\ UNCHANGED <<tree, t_i>>
           ELSE tree' = r.tree /\ t_i' = t_i + 1 /\ UNCHANGED tpc
    /\ UNCHANGED <<t_input, t_sorted>>
    /\ UNCHANGED nonTVars

\* return tree
ReturnTree ==
    /\ tpc = "loop"
    /\ t_i > Len(t_sorted)
    /\ tpc' = "returned"
    /\ UNCHANGED <<t_input, t_sorted, t_i, tree>>
    /\ UNCHANGED nonTVars

NextTree ==
    \/ SortPaths
    \/ InsertPath
    \/ ReturnTree

-----------------------------------------------------------------------------
(* The enhanced pipeline with both strategies configured: Step 2, the export,
   and then Step 3, the cache warm-up of the same records *)

\* [info['path'] for info in download_info]
PathsOfRecords(infos) == [k \in DOMAIN infos |-> infos[k].path]

\* a mutant of BeginStrategyA: Step 3 starts while the pool is still collecting
BeginStrategyAEarly ==
    /\ bpc \in {"collect", "summary", "returned"}
    /\ apc = "idle"
    /\ a_input' = PathsOfRecords(export_input)
    /\ a_i' = 1
    /\ apc' = "request"
    /\ UNCHANGED <<rate_limit, total_artifacts, success_count, failed_count, failed_paths,
                   a_result, probes, in_flight, last_response, sleeps, a_before>>
    /\ UNCHANGED nonAVars

\* export_artifacts_to_filesystem has returned its statistics; neither
\* --export-only nor --validate-only is set, so _process_asset_paths is called
BeginStrategyA ==
    /\ bpc = "returned"
    /\ apc = "idle"
    /\ a_input' = PathsOfRecords(export_input)
    /\ a_i' = 1
    /\ apc' = "request"
    /\ UNCHANGED <<rate_limit, total_artifacts, success_count, failed_count, failed_paths,
                   a_result, probes, in_flight, last_response, sleeps, a_before>>
    /\ UNCHANGED nonAVars

\* both strategies configured, on a short list of records
InitBoth ==
    /\ InitB
    /\ Len(export_input) <= MaxBoth

NextBoth ==
    \/ NextB
    \/ BeginStrategyA
    \/ NextA

-----------------------------------------------------------------------------
(* GAV-scoped discovery: get_all_asset_paths_for_gavs *)

GavCoordinates == { <<"org.demo", "lib", "1.0">>, <<"org.demo", "lib", "2.0">> }

\* gavs is a set of tuples in sync_by_gav: the loop meets its elements in some
\* order, each once; sync_by_gav returns before the call when the set is empty
GavLists == UNION { ListsOf(S) : S \in SUBSET GavCoordinates \ {{}} }

\* the paths of the nested assets of one page, in page order ("": no path)
GavPageContents == { <<>>, <<"a">>, <<"b">>, <<"", "a">>, <<"a", "b">> }

GavTokens == {NoToken, "t1"}

\* what a search request can produce: a page (status 200, a JSON object), another
\* status, an exception before any asset is read (transport failure, invalid
\* JSON, a body that is no object), or an exception at an item that is no object
\* after the assets before it were read
GavResponses ==
    [kind : {"page"}, assets : GavPageContents, continuationToken : GavTokens]
        \cup [kind : {"status", "exception"}, assets : {<<>>}, continuationToken : {NoToken}]
        \cup [kind : {"bad_item"}, assets : GavPageContents, continuationToken : {NoToken}]

\* the paths the innermost loop adds: those that are set
AddedPaths(assets) == {assets[k] : k \in {j \in DOMAIN assets : assets[j] # ""}}

\* an entry of the log of what the call did: a search request or a sleep
GavQuery(gav, token) == [what |-> "query", gav |-> gav, sent |-> token, got |-> "pending"]
GavSleep == [what |-> "sleep", gav |-> <<>>, sent |-> NoToken, got |-> NoToken]

\* the last entry of the log, with what the request was answered
Answered(log, got) == [log EXCEPT ![Len(log)].got = got]

IdleGav ==
    /\ gavs = <<>>
    /\ g_i = 1
    /\ g_token = NoToken
    /\ g_page = 0
    /\ gpc = "idle"
    /\ all_asset_paths = {}
    /\ g_result = <<>>
    /\ g_log = <<>>
    /\ g_seen = {}

InitGav ==
    /\ gavs \in GavLists
    /\ g_i = 1
    /\ g_token = NoToken
    /\ g_page = 0
    /\ gpc = "request"
    /\ all_asset_paths = {}
    /\ g_result = <<>>
    /\ g_log = <<>>
    /\ g_seen = {}

\* the search request for the current coordinate goes out, with the continuation
\* token if one is held
SendGavRequest ==
    /\ gpc = "request"
    /\ g_log' = Append(g_log, GavQuery(gavs[g_i], IF Truthy(g_token) THEN g_token ELSE NoToken))
    /\ g_page' = g_page + 1
    /\ gpc' = "waiting"
    /\ UNCHANGED <<gavs, g_i, g_token, all_asset_paths, g_result, g_seen>>
    /\ UNCHANGED nonGVars

\* status 200 and a page: its paths are added, and the loop goes on if the page
\* carries a token (a source serves at most MaxGavPages pages per coordinate)
ReceiveGavPage ==
    /\ gpc = "waiting"
    /\ \E resp \in GavResponses :
        /\ resp.kind = "page"
        /\ g_page = MaxGavPages => resp.continuationToken = NoToken
        /\ all_asset_paths' = all_asset_paths \cup AddedPaths(resp.assets)
        /\ g_seen' = g_seen \cup {p \in Paths : \E k \in DOMAIN resp.assets : resp.assets[k] = p}
        /\ g_token' = resp.continuationToken
        /\ g_log' = Answered(g_log, resp.continuationToken)
        /\ gpc' = IF Truthy(resp.continuationToken) THEN "request" ELSE "sleep"
    /\ UNCHANGED <<gavs, g_i, g_page, g_result>>
    /\ UNCHANGED nonGVars

\* a mutant of ReceiveGavFailure: a failure ends the whole discovery
ReceiveGavFailureAborting ==
    /\ gpc = "waiting"
    /\ \E resp \in GavResponses :
        /\ resp.kind # "page"
        /\ all_asset_paths' = all_asset_paths \cup AddedPaths(resp.assets)
        /\ g_seen' = g_seen \cup {p \in Paths : \E k \in DOMAIN resp.assets : resp.assets[k] = p}
        /\ g_log' = Answered(g_log, "failed")
        /\ gpc' = "return"
    /\ UNCHANGED <<gavs, g_i, g_token, g_page, g_result>>
    /\ UNCHANGED nonGVars

\* another status, or an exception (every Exception is caught): the pagination of
\* this coordinate ends with break; what was added before stays
ReceiveGavFailure ==
    /\ gpc = "waiting"
    /\ \E resp \in GavResponses :
        /\ resp.kind # "page"
        /\ all_asset_paths' = all_asset_paths \cup AddedPaths(resp.assets)
        /\ g_seen' = g_seen \cup {p \in Paths : \E k \in DOMAIN resp.assets : resp.assets[k] = p}
        /\ g_log' = Answered(g_log, "failed")
        /\ gpc' = "sleep"
    /\ UNCHANGED <<gavs, g_i, g_token, g_page, g_result>>
    /\ UNCHANGED nonGVars

\* time.sleep(0.1) after the coordinate's loop, then the next coordinate with
\* continuation_token = None
SleepAfterGav ==
    /\ gpc = "sleep"
    /\ g_log' = Append(g_log, GavSleep)
    /\ g_i' = g_i + 1
    /\ g_token' = NoToken
    /\ g_page' = 0
    /\ gpc' = IF g_i < Len(gavs) THEN "request" ELSE "return"
    /\ UNCHANGED <<gavs, all_asset_paths, g_result, g_seen>>
    /\ UNCHANGED nonGVars

\* return list(all_asset_paths)
ReturnGavPaths ==
    /\ gpc = "return"
    /\ g_result' \in ListsOf(all_asset_paths)
    /\ gpc' = "done"
    /\ UNCHANGED <<gavs, g_i, g_token, g_page, all_asset_paths, g_log, g_seen>>
    /\ UNCHANGED nonGVars

NextGav ==
    \/ SendGavRequest
    \/ ReceiveGavPage
    \/ ReceiveGavFailure
    \/ SleepAfterGav
    \/ ReturnGavPaths

-----------------------------------------------------------------------------
(* Any paginated discovery: one call of one of the five source operations, or
   one call of the per-coordinate discovery *)

InitPaginated ==
    \/ InitDisc /\ IdleGav
    \/ InitGav /\ IdleDisc

NextPaginated ==
    \/ NextDisc
    \/ NextGav

-----------------------------------------------------------------------------
(* Specifications: one per part, the other parts idle *)

\* one call of one paginated discovery operation
StartDisc == InitDisc /\ IdleRecon /\ IdleA /\ IdleDl /\ IdleV /\ IdleB /\ IdleMain /\ IdleCoord /\ IdleTree /\ IdleGav
SpecDisc == StartDisc /\ [][NextDisc]_vars

\* the loop runs without interruption: whenever a step is possible, one is taken
FairSpecDisc == SpecDisc /\ WF_vars(NextDisc)

\* Step 1 of a pipeline, in two runs given the same source responses
StartRecon == InitRecon /\ IdleDisc /\ IdleA /\ IdleDl /\ IdleV /\ IdleB /\ IdleMain /\ IdleCoord /\ IdleTree /\ IdleGav
SpecRecon == StartRecon /\ [][NextRecon]_vars

\* one call of _process_asset_paths on a fresh syncer
StartA == InitA /\ IdleDisc /\ IdleRecon /\ IdleDl /\ IdleV /\ IdleB /\ IdleMain /\ IdleCoord /\ IdleTree /\ IdleGav
SpecA == StartA /\ [][NextA]_vars

\* successive calls of _process_asset_paths on one syncer
SpecAgain == StartA /\ [][NextAgain]_vars

\* one call of download_single_asset
StartDl == InitDl /\ IdleDisc /\ IdleRecon /\ IdleA /\ IdleV /\ IdleB /\ IdleMain /\ IdleCoord /\ IdleTree /\ IdleGav
SpecDl == StartDl /\ [][NextDl]_vars

\* two calls of validate_sync_completeness in succession, on the same list and
\* against the same target
StartV == InitV /\ IdleDisc /\ IdleRecon /\ IdleA /\ IdleDl /\ IdleB /\ IdleMain /\ IdleCoord /\ IdleTree /\ IdleGav
SpecV == StartV /\ [][NextV]_vars

\* main with --export-to-path: the command line is checked, then
\* export_artifacts_to_filesystem runs on a fresh syncer, and Ctrl-C may arrive
StartB == InitB /\ IdleDisc /\ IdleRecon /\ IdleA /\ IdleDl /\ IdleV /\ IdleMain /\ IdleCoord /\ IdleTree /\ IdleGav
SpecB == StartB /\ [][NextB]_vars

\* one invocation of main in one of its five modes
StartMain == InitMain /\ IdleDisc /\ IdleRecon /\ IdleA /\ IdleDl /\ IdleV /\ IdleB /\ IdleCoord /\ IdleTree /\ IdleGav
SpecMain == StartMain /\ [][NextMain]_vars

\* the coordinate of one asset of a page of get_all_gavs_from_nexus
StartCoord == InitCoord /\ IdleDisc /\ IdleRecon /\ IdleA /\ IdleDl /\ IdleV /\ IdleB /\ IdleMain /\ IdleTree /\ IdleGav
SpecCoord == StartCoord /\ [][NextCoord]_vars

\* one call of _build_tree_from_paths
StartTree == InitTree /\ IdleDisc /\ IdleRecon /\ IdleA /\ IdleDl /\ IdleV /\ IdleB /\ IdleMain /\ IdleCoord /\ IdleGav
SpecTree == StartTree /\ [][NextTree]_vars

\* main with --export-to-path and cache warm-up: the export, then Strategy A
StartBoth == InitBoth /\ IdleDisc /\ IdleRecon /\ IdleA /\ IdleDl /\ IdleV /\ IdleMain /\ IdleCoord /\ IdleTree /\ IdleGav
SpecBoth == StartBoth /\ [][NextBoth]_vars

\* one call of get_all_asset_paths_for_gavs
StartGav == InitGav /\ IdleDisc /\ IdleRecon /\ IdleA /\ IdleDl /\ IdleV /\ IdleB /\ IdleMain /\ IdleCoord /\ IdleTree
SpecGav == StartGav /\ [][NextGav]_vars

\* one call of any paginated discovery operation
StartPaginated == InitPaginated /\ IdleRecon /\ IdleA /\ IdleDl /\ IdleV /\ IdleB /\ IdleMain /\ IdleCoord /\ IdleTree
SpecPaginated == StartPaginated /\ [][NextPaginated]_vars

-----------------------------------------------------------------------------
(* Claims about paginated discovery, checked under SpecDisc / FairSpecDisc *)

\* the operation returned and every page request was answered with a page
ReturnedAllOk == dpc = "done" /\ ~failed_page

\* C1 as stated: when every request is answered successfully, the returned list is
\* as long as the sum of the per-page item counts, whatever the items contain.
C1_LengthIsItemCount == ReturnedAllOk => Len(Acc) = items_served

\* C1 (amended): when every request is answered successfully, the returned list is
\* as long as the number of served assets that carry a non-empty path (and, for the
\* download-info operations, a non-empty downloadUrl); the operation issued one
\* request per page served, the last page served is the only one without a
\* continuation token, and no request is issued after a page without a token.
C1_PaginationCompleteness ==
    /\ ReturnedAllOk =>
          /\ Len(Acc) = valid_served
          /\ n_requests = n_pages
          /\ tokenless_pages = 1
    /\ (dpc \in {"request", "waiting", "sleep"}) => tokenless_pages = 0

\* a nested operation returned after two pages, one of whose three assets it dropped
C1_Witness ==
    /\ ReturnedAllOk
    /\ op \in NestedOps
    /\ n_pages = 2
    /\ items_served = 3
    /\ valid_served = 2

\* C2: a failing page k (status, transport failure, malformed body) ends the
\* pagination, the operation returns normally with exactly the records of pages
\* 1..k-1, and no exception leaves the operation.
C2_PartialFailureTolerated ==
    /\ dpc # "raised"
    /\ (dpc = "done" /\ failed_page) => Acc = acc_before_failure

\* C3: whatever the source answers, the operation eventually stops requesting
\* pages and returns.
C3_DiscoveryTerminates == <>(dpc \in {"done", "raised"})

-----------------------------------------------------------------------------
(* Claims about reconciliation, checked under SpecRecon *)

\* the paths of a list of run r's pipeline
PathsOf(list) == {PathOf(pipeline, list[i]) : i \in DOMAIN list}

\* no two elements of the list have the same path
PathsDistinct(list) ==
    \A i, j \in DOMAIN list :
        PathOf(pipeline, list[i]) = PathOf(pipeline, list[j]) => i = j

\* C4: in every run and for every API selection, the list handed to the transfer
\* and to the validator holds no two records with the same path.
C4_HandedPathsUnique ==
    \A r \in Runs : rpc[r] = "handed" => PathsDistinct(reconciled[r])

\* both sources are queried and neither returned a path twice
BothDuplicateFree ==
    /\ pipeline \in {"sync_all_artifacts", "sync_all_artifacts_enhanced"}
    /\ selection = "both"
    /\ PathsDistinct(from_assets)
    /\ PathsDistinct(from_components)

\* C5: when both sources are queried and each is duplicate-free, the combined list
\* has M + A + B records (M shared paths, A and B exclusive ones) and the record kept
\* for every path the flat assets source returned is that source's record.
C5_DedupFirstSeenWins ==
    \A r \in Runs :
        (BothDuplicateFree /\ rpc[r] \in {"reconciled", "handed", "aborted"}) =>
            LET SA == PathsOf(from_assets)
                SC == PathsOf(from_components)
            IN  /\ Len(reconciled[r]) =
                      Cardinality(SA \cap SC) + Cardinality(SA \ SC) + Cardinality(SC \ SA)
                /\ \A i \in DOMAIN reconciled[r] :
                      PathOf(pipeline, reconciled[r][i]) \in SA =>
                          reconciled[r][i] \in SetOf(from_assets)

\* the enhanced pipeline combined two sources that share one path, with different
\* sizes, and have one exclusive path each
C5_Witness ==
    /\ BothDuplicateFree
    /\ pipeline = "sync_all_artifacts_enhanced"
    /\ rpc[1] = "handed"
    /\ Len(reconciled[1]) = 3
    /\ Cardinality(PathsOf(from_assets) \cap PathsOf(from_components)) = 1
    /\ SetOf(from_assets) \cap SetOf(from_components) = {}

\* C6: two runs given the same source responses hand on the same list, in the same
\* order and with the same metadata.
C6_RunsAgree ==
    (rpc[1] = "handed" /\ rpc[2] = "handed") => reconciled[1] = reconciled[2]

-----------------------------------------------------------------------------
(* Claims about Strategy A, checked under SpecA *)

\* the probe of the current record has been answered and classified
Classified == apc \in {"count", "append", "total", "sleep"}

\* C7: every probe gets exactly one outcome: Success for every 2xx status, NotFound
\* for 404, Unauthorized for 401, Forbidden for 403, OtherError with the status code
\* for any other status, Timeout for a timeout and OtherError with the underlying
\* message for any other transport failure.
C7_ProbeClassification ==
    Classified =>
        LET r == last_response
            m == a_result.message
        IN  IF r.kind = "timeout" THEN ~a_result.success /\ m = "Timeout"
            ELSE IF r.kind = "error"
            THEN ~a_result.success /\ m = "Request error: " \o r.error
            ELSE IF r.code >= 200 /\ r.code <= 299 THEN a_result.success /\ m = "Success"
            ELSE IF r.code = 404
            THEN ~a_result.success /\ m = "Not found (may not exist in Nexus mirror)"
            ELSE IF r.code = 401 THEN ~a_result.success /\ m = "Authentication required"
            ELSE IF r.code = 403 THEN ~a_result.success /\ m = "Access forbidden"
            ELSE ~a_result.success /\ m = "HTTP " \o ToString(r.code)

\* C8: once a record's statistics are written, they differ from those at its probe
\* by one outcome: after a 404 (or any other non-success outcome) failed is one
\* higher, (path, detail) is appended to the failure list and succeeded is as it
\* was; after a 200 succeeded is one higher and failed and the failure list are as
\* they were; the total is one higher in both cases.
C8_Bookkeeping ==
    apc = "sleep" =>
        /\ total_artifacts = a_before.total + 1
        /\ (last_response.kind = "status" /\ last_response.code = 200) => a_result.success
        /\ (last_response.kind = "status" /\ last_response.code = 404) => ~a_result.success
        /\ IF a_result.success
           THEN /\ success_count = a_before.success + 1
                /\ failed_count = a_before.failed
                /\ failed_paths = a_before.failed_paths
           ELSE /\ failed_count = a_before.failed + 1
                /\ failed_paths =
                      Append(a_before.failed_paths, <<a_input[a_i], a_result.message>>)
                /\ success_count = a_before.success

\* the second record answered 404 after the first answered 200
C8_Witness ==
    /\ apc = "sleep"
    /\ a_i = 2
    /\ last_response.code = 404
    /\ success_count = 1
    /\ failed_count = 1

\* before the loop, between two iterations, or after the loop
BetweenIterations == apc \in {"request", "done"}

\* the failure list grows in this step
FailureListed == failed_paths' # failed_paths

\* C34: before the loop and after each completed iteration, over successive calls
\* on one syncer, the total equals successes plus failures and the failure list
\* is as long as the failure count; the list grows only at its end, by the record
\* being processed when that record failed, so it is in processing order.
C34_StatisticsInvariant ==
    /\ [](BetweenIterations =>
            /\ total_artifacts = success_count + failed_count
            /\ Len(failed_paths) = failed_count)
    /\ [][FailureListed =>
            /\ ~a_result.success
            /\ failed_paths' = Append(failed_paths, <<a_input[a_i], a_result.message>>)]_vars

\* a second call has ended, with a failure in each of the two calls
C34_Witness ==
    /\ apc = "done"
    /\ total_artifacts = 3
    /\ failed_count = 2
    /\ Len(probes) <= 2
    /\ failed_paths[1][1] = "b"
    /\ failed_paths[2][1] = "a"

\* _process_asset_paths has ended, by returning or by an exception
EndedA == apc \in {"done", "raised"}

\* C9: one probe per record, in input order, never two outstanding, a sleep between
\* a record and the next probe, and whatever a record's outcome the later records
\* are probed: when _process_asset_paths ends, every record has been probed.
C9_SequentialComplete ==
    /\ in_flight <= 1
    /\ Len(probes) <= Len(a_input)
    /\ \A k \in DOMAIN probes : probes[k] = a_input[k]
    /\ sleeps >= Len(probes) - 1
    /\ EndedA => probes = a_input

\* the delay 1.0 / rate_limit can be computed and slept: the division is defined
\* and time.sleep accepts the quotient
DelayDefined(rate) == rate # 0 /\ rate > 0

\* C39: for every rate limit the command line accepts, the per-record delay was
\* defined and not negative whenever the loop has evaluated it, so the loop is
\* never left by an exception of the sleep and, when it ends, all records of the
\* input have been processed.
C39_RateLimitDelayDefined ==
    /\ (sleeps > 0 \/ apc = "raised") => DelayDefined(rate_limit)
    /\ EndedA => /\ apc = "done"
                 /\ Len(probes) = Len(a_input)

\* C20: at every point of the per-record loop (where an interrupt makes main print
\* the summary) the counters satisfy success + failed <= total processed.
C20_ConsistentAtInterrupt ==
    apc \in {"request", "waiting", "count", "append", "total", "sleep"} =>
        success_count + failed_count <= total_artifacts

-----------------------------------------------------------------------------
(* Claims about download_single_asset, checked under SpecDl *)

\* the destination file as the worker found it
FoundFile == fs_before[Target]

\* the record's declared size: its 'size', 0 when it has none
DeclaredSize == IF asset_info.has_size THEN asset_info.size ELSE 0

\* the destination existed with the declared byte length, and that is positive
FoundComplete ==
    /\ FoundFile.exists
    /\ FoundFile.size = DeclaredSize
    /\ DeclaredSize > 0

\* C10: a destination file that exists with the declared, positive size makes the
\* worker report "Already exists" without a download request and without touching
\* the file; if the declared size is absent or zero, or the sizes differ (or there
\* is no file and its directories could be created), a download request is issued.
C10_ShortCircuitSkip ==
    dlpc # "start" =>
        /\ FoundComplete =>
              /\ dlpc = "done"
              /\ dl_result = [success |-> TRUE, message |-> "Already exists"]
              /\ dl_requests = 0
              /\ fs = fs_before
        /\ (~FoundComplete /\ ~mkdir_failed) => dl_requests = 1
        /\ (FoundFile.exists /\ ~FoundComplete) => dl_requests = 1

\* the worker found a file of the declared size 2 and skipped it
C10_Witness ==
    /\ dlpc = "done"
    /\ FoundFile.exists
    /\ DeclaredSize = 2
    /\ dl_result.message = "Already exists"

\* the download request was answered with status 200 and the whole body was
\* written to the destination
DownloadCompleted ==
    /\ dlpc = "done"
    /\ dl_response.kind = "status"
    /\ dl_response.code = 200
    /\ ~dl_response.broken

\* C11: a completed download whose written byte count differs from the declared,
\* positive size is a failure with a size-mismatch message, the written file stays
\* in place and no second request is issued; a completed download of a record whose
\* declared size is absent (no 'size', or a null one) or zero is a success whatever
\* its length.
C11_DownloadIntegrity ==
    DownloadCompleted =>
        /\ dl_requests = 1
        /\ fs[Target] = [exists |-> TRUE, size |-> dl_response.body, written |-> TRUE]
        /\ (DeclaredSize > 0 /\ dl_response.body # DeclaredSize) =>
              /\ ~dl_result.success
              /\ dl_result.message =
                    "Size mismatch: expected " \o ToString(DeclaredSize)
                    \o ", got " \o ToString(dl_response.body)
        /\ DeclaredSize <= 0 => dl_result = [success |-> TRUE, message |-> "Downloaded"]

-----------------------------------------------------------------------------
(* Claims about the export pool, checked under SpecB *)

\* the records whose future the aggregator has consumed
Collected == {i \in Jobs : task[i] = "collected"}

\* the record's worker failed: it returned a failure, or an exception left it
Failed(i) == outcome[i].raised \/ ~outcome[i].success

\* the (path, message) the aggregator appends for a failed record
FailureEntry(i) ==
    <<export_input[i].path,
      IF outcome[i].raised THEN "Exception: " \o outcome[i].message ELSE outcome[i].message>>

\* C12: a record whose worker failed or raised is counted as failed, with its
\* path and message in the failure list, and nothing else happens: the number of
\* failures is the number of failed records, once every record has an outcome the
\* export (if not interrupted) goes on collecting, and when it returns every
\* record was collected and its summary shows the statistics.
C12_FailureIsolation ==
    /\ \A i \in Collected :
          Failed(i) => \E k \in DOMAIN export_stats.failed_items :
                          export_stats.failed_items[k] = FailureEntry(i)
    /\ export_stats.failed = Cardinality({i \in Collected : Failed(i)})
    /\ (~interrupted /\ \A i \in Jobs : task[i] \in {"done", "collected"}) =>
          bpc \in {"collect", "summary", "returned"}
    /\ bpc = "returned" =>
          /\ Collected = Jobs
          /\ summary = ExportSummaryLines(export_stats)

\* the export returned after the first record's worker raised and the second
\* record was downloaded
C12_Witness ==
    /\ bpc = "returned"
    /\ Len(export_input) = 2
    /\ outcome[1].raised
    /\ outcome[2].message = "Downloaded"
    /\ export_stats.success = 1

\* C13: every record is taken by a worker at most once, and exactly once when it
\* has an outcome; when the export returns every record was collected, success +
\* failed + already_exists is the total, the total is the length of the input and
\* the failure list has as many entries as failed counts.
C13_ExactlyOnce ==
    /\ \A i \in Jobs :
          /\ handed[i] <= 1
          /\ task[i] \in {"running", "done", "collected"} <=> handed[i] = 1
    /\ bpc = "returned" =>
          /\ Collected = Jobs
          /\ export_stats.total = Len(export_input)
          /\ export_stats.success + export_stats.failed + export_stats.already_exists
                = export_stats.total
          /\ Len(export_stats.failed_items) = export_stats.failed

\* the export of two records returned, one skipped and one failed, from a pool
\* of width 2
C13_Witness ==
    /\ bpc = "returned"
    /\ export_parallel_downloads = 2
    /\ export_stats.already_exists = 1
    /\ export_stats.failed = 1

\* C14: past the check of the command line the pool width is within 1..20, a
\* rejected command line starts no worker, and at most as many downloads are in
\* flight as the pool is wide.
C14_BoundedParallelism ==
    /\ bpc \notin {"parse", "rejected"} =>
          export_parallel_downloads \in MinParallel..MaxParallel
    /\ bpc = "rejected" => \A i \in Jobs : handed[i] = 0
    /\ Cardinality(InFlight) <= export_parallel_downloads

\* a pool of width 1 has one download in flight and the next record waiting
C14_Witness ==
    /\ export_parallel_downloads = 1
    /\ \E i, j \in Jobs : task[i] = "running" /\ task[j] = "queued"

\* the counters account for the collected records, no more and no less
StatsMatchCollected ==
    /\ export_stats.success + export_stats.failed + export_stats.already_exists
          = Cardinality(Collected)
    /\ Len(export_stats.failed_items) = export_stats.failed

\* a step of the main thread that creates export_stats or collects one future
AggregatorStep ==
    \/ bpc = "enter"
    \/ bpc = "collect" /\ \E i \in Jobs : task[i] = "done" /\ task'[i] = "collected"

\* C15: export_stats changes only in a step of the aggregating main thread, never
\* in a worker's step, and its counters always account for exactly the collected
\* records: no increment is lost.
C15_SinglePointOfMutation ==
    /\ []StatsMatchCollected
    /\ [][export_stats' # export_stats => AggregatorStep]_vars

\* one download is counted while another is still in flight
C15_Witness ==
    /\ export_stats.success = 1
    /\ \E i \in Jobs : task[i] = "running"

\* C18: after the interrupt no download request goes out: no record's request is
\* issued after it, and a record queued in the pool at the interrupt is never
\* taken by a worker.
C18_InterruptStopsNewWork ==
    /\ late_requests = {}
    /\ \A i \in queued_at_interrupt : handed[i] = 0

\* the (label, value) lines of a summary
LinesOf(lines) == {lines[k] : k \in DOMAIN lines}

\* C19: the summary printed after an interrupt of the export shows the export's
\* counters (total, success, already_exists, failed) of the downloads counted so
\* far.
C19_PartialSummaryOnInterrupt ==
    (bpc = "exited" /\ Collected # {}) =>
        LinesOf(ExportSummaryLines(export_stats)) \subseteq LinesOf(summary)

-----------------------------------------------------------------------------
(* Claims about the validator, checked under SpecV *)

\* the target's answer for a path is a 2xx status or 304 (not modified)
AnswersPresent(p) ==
    /\ target[p].kind = "status"
    /\ (target[p].code >= 200 /\ target[p].code <= 299) \/ target[p].code = 304

\* the target's answer for a path is 404
AnswersMissing(p) == target[p].kind = "status" /\ target[p].code = 404

\* any other status, or a transport failure
AnswersErrored(p) == ~AnswersPresent(p) /\ ~AnswersMissing(p)

\* the paths of a list of (path, detail) pairs
ErrorPaths(errors) == [k \in DOMAIN errors |-> errors[k][1]]

\* C16: a call of the validator probes every path of its input once, in one pass,
\* and returns as missing exactly the paths that answered 404 and as errors exactly
\* the paths that answered neither 2xx / 304 nor 404 (or whose probe failed).
C16_ValidatorClassification ==
    \A r \in Runs :
        v_returned[r] # NoReturn =>
            /\ v_probes[r] = v_input
            /\ v_returned[r].missing_files = SelectSeq(v_input, AnswersMissing)
            /\ ErrorPaths(v_returned[r].validation_errors) =
                  SelectSeq(v_input, AnswersErrored)

\* C17: two calls of the validator in succession on the same list, against a
\* target whose answers do not change, return the same missing list and the same
\* error list, and issue the same probes.
C17_ValidatorIdempotent ==
    (v_returned[1] # NoReturn /\ v_returned[2] # NoReturn) =>
        /\ v_returned[1] = v_returned[2]
        /\ v_probes[1] = v_probes[2]

\* both calls returned, with one path missing and one probe failed
C17_Witness ==
    /\ vpc = "done"
    /\ Len(v_returned[2].missing_files) = 1
    /\ Len(v_returned[2].validation_errors) = 1
    /\ v_returned[1] # NoReturn

-----------------------------------------------------------------------------
(* Claims about main and the pipeline entry points, checked under SpecMain *)

\* the connectivity test was answered 401 or 403
AuthRefused ==
    /\ connectivity.kind = "response"
    /\ connectivity.status_code \in {401, 403}

\* C21: when the connectivity test is answered 401 or 403, the run of every entry
\* point ends with a failure (exit code 1) and has issued no discovery request, no
\* transfer request and no validation probe.
C21_FatalAuthenticationFailure ==
    AuthRefused =>
        /\ mpc = "exited"
        /\ exit_code = 1
        /\ requested = {}
        /\ \A s \in AllSources : source_state[s] = "unqueried"

\* the tree view was refused with 403 and ended
C21_Witness ==
    /\ entry = "generate_tree_view"
    /\ connectivity.kind = "response"
    /\ connectivity.status_code = 403
    /\ mpc = "exited"

\* a run of a pipeline that queries both sources, ended other than by Ctrl-C
BothSourcesRunEnded ==
    /\ entry \in {"sync_all_artifacts", "sync_all_artifacts_enhanced"}
    /\ m_selection = "both"
    /\ mpc = "exited"
    /\ ended_by # "interrupted"

\* C22: when both sources are queried and the pagination of one of them fails on
\* some page, the other source is still queried, and the run goes on to the
\* transfer or validation step if either source produced a record.
C22_SourceFailureIsolation ==
    (/\ BothSourcesRunEnded
     /\ \E s \in {"assets", "components"} : source_state[s] \in {"partial", "raised"})
        => /\ \A s \in {"assets", "components"} : source_state[s] # "unqueried"
           /\ AnyFound => requested \cap {"transfer", "validation"} # {}

\* C23: the process exits with 0 only when the run completed, and with 1 after a
\* failed connectivity test, an empty discovery, an unexpected exception, a
\* declined confirmation prompt or an interrupt.
C23_ExitCode ==
    mpc = "exited" => exit_code = (IF ended_by = "completed" THEN 0 ELSE 1)

\* C31: whenever --validate-only is set, whichever of sync_by_gav, export_to_path
\* and export_only are set with it, the run issues no Strategy A probe and no
\* Strategy B download; the only requests to the target are the Validator's.
C31_ValidateOnlyNoTransfer ==
    (entry \in SyncEntries /\ validate_mode = "validate_only") =>
        "transfer" \notin requested

\* discovery returned at least one record to the pipeline
RecordsFound == IF entry = "sync_by_gav" THEN found["gav_paths"] ELSE AnyFound

\* C38: when the discovery of a pipeline ends with an empty record set (every
\* queried source returned nothing or failed), the pipeline ends with a failure,
\* has issued no existence probe, no download and no validation probe, and has
\* counted nothing.
C38_EmptyDiscoveryAborts ==
    (/\ entry \in SyncEntries
     /\ "discovery" \in requested
     /\ mpc \notin {"discover", "check"}
     /\ ~RecordsFound)
        => /\ mpc = "exited"
           /\ exit_code = 1
           /\ requested = {"discovery"}
           /\ ~processed

\* both sources of the enhanced pipeline failed on their first page
C38_Witness ==
    /\ entry = "sync_all_artifacts_enhanced"
    /\ m_selection = "both"
    /\ source_state["assets"] = "partial"
    /\ source_state["components"] = "partial"
    /\ ~AnyFound
    /\ mpc = "exited"
    /\ ended_by = "empty_discovery"

-----------------------------------------------------------------------------
(* Claims about coordinate resolution, checked under SpecCoord *)

\* the asset's format is maven2 and its three maven2 fields are set
Structured ==
    /\ LowerFormat(c_asset.format) = "maven2"
    /\ Truthy(c_asset.maven2.groupId)
    /\ Truthy(c_asset.maven2.artifactId)
    /\ Truthy(c_asset.maven2.version)

\* the loop body ran on a maven2 asset that had to be resolved from its path
ResolvedByPath ==
    /\ cpc = "done"
    /\ LowerFormat(c_asset.format) = "maven2"
    /\ ~Structured

\* group, artifact and version as the path's segments give them
GroupOf(segments) == Join(SubSeq(segments, 1, Len(segments) - 3), ".")
ArtifactOf(segments) == segments[Len(segments) - 2]
VersionOf(segments) == segments[Len(segments) - 1]
PathCoordinate(segments) == <<GroupOf(segments), ArtifactOf(segments), VersionOf(segments)>>

\* C24 as stated: a record resolved from a path of at least 4 segments gets group,
\* artifact and version from the segments and fails only if the group is empty; a
\* path of 3 or fewer segments yields no coordinate.
C24_FailsOnlyOnEmptyGroup ==
    ResolvedByPath =>
        LET segments == Split(c_asset.path)
        IN  unique_gavs = IF Len(segments) >= 4 /\ GroupOf(segments) # ""
                          THEN {PathCoordinate(segments)} ELSE {}

\* the coordinates a path resolves to: one if it has at least 4 segments and none
\* of group, artifact and version is empty, else none
PathCoordinates(path) ==
    LET segments == Split(path)
    IN  IF /\ Len(segments) >= 4
           /\ GroupOf(segments) # ""
           /\ ArtifactOf(segments) # ""
           /\ VersionOf(segments) # ""
        THEN {PathCoordinate(segments)} ELSE {}

\* C24 (amended): a record resolved from a path of at least 4 slash-delimited
\* segments gets version = segments[-2], artifact = segments[-3] and group = the
\* segments before them joined with '.', and resolution fails if the group, the
\* artifact or the version is empty; the example path yields
\* ("com.acme.widgets", "widget-core", "1.2.3"); a path of 3 or fewer segments
\* yields no coordinate.
C24_PathResolution ==
    ResolvedByPath =>
        /\ unique_gavs = PathCoordinates(c_asset.path)
        /\ c_asset.path = ExamplePath =>
              unique_gavs = {<<"com.acme.widgets", "widget-core", "1.2.3">>}
        /\ Len(Split(c_asset.path)) <= 3 => unique_gavs = {}

\* the example path, with its three-segment group, was resolved
C24_Witness ==
    /\ ResolvedByPath
    /\ c_asset.path = ExamplePath
    /\ unique_gavs = {<<"com.acme.widgets", "widget-core", "1.2.3">>}

\* C25: an asset whose format is maven2 and whose group, artifact and version
\* fields are all set resolves to exactly those fields, whatever its path; every
\* other asset, whatever its format, is resolved from its path.
C25_ResolverPrecedence ==
    cpc = "done" =>
        unique_gavs =
            IF Structured
            THEN {<<c_asset.maven2.groupId, c_asset.maven2.artifactId,
                    c_asset.maven2.version>>}
            ELSE PathCoordinates(c_asset.path)

-----------------------------------------------------------------------------
(* Claims about the tree builder, checked under SpecTree *)

\* the set of the paths given
TreeInputSet == {t_input[i] : i \in DOMAIN t_input}

\* the tree the claim describes for a set of paths: every proper prefix of a
\* path's segments is a directory, the whole of a path's segments is a file
ExpectedDirs(S) ==
    UNION { {SubSeq(Split(p), 1, k) : k \in 1..(Len(Split(p)) - 1)} : p \in S }

ExpectedTree(S) ==
    {<<d, "dir">> : d \in ExpectedDirs(S)} \cup {<<Split(p), "file">> : p \in S}

\* the tree of the specification's example
ExampleTree ==
    { <<<<"a">>, "dir">>, <<<<"a", "b">>, "dir">>,
      <<<<"a", "b", "c.jar">>, "file">>, <<<<"a", "b", "d.jar">>, "file">>,
      <<<<"a", "e.jar">>, "file">> }

\* C26: the builder returns, for every list of paths, the tree in which each
\* all-but-last segment of a path is a directory and each last segment a terminal
\* marker; the tree depends only on the set of the paths, not on their order or
\* repetition, and the example's paths give a -> {b -> {c.jar, d.jar}, e.jar}.
C26_TreeBuilding ==
    tpc \in {"returned", "raised"} =>
        /\ tpc = "returned"
        /\ tree = ExpectedTree(TreeInputSet)
        /\ TreeInputSet = TreeExamplePaths => tree = ExampleTree

\* the segment sequences that lead from the root of a tree to a terminal marker
TerminalsOf(t) == {e[1] : e \in {f \in t : f[2] = "file"}}

\* C33: for every list of paths, one that holds a path and a path below it
\* included, the builder returns without an error and the root-to-terminal
\* segment sequences of the tree returned are exactly the paths given.
C33_TreeTotalAndLossless ==
    tpc \in {"returned", "raised"} =>
        /\ tpc = "returned"
        /\ TerminalsOf(tree) = {Split(p) : p \in TreeInputSet}

-----------------------------------------------------------------------------
(* Claims about the two strategies in one invocation, checked under SpecBoth *)

\* Strategy A has issued a probe
ProbingBegan == probes # <<>>

\* C27: with both strategies configured, when the first Strategy A probe is issued
\* every Strategy B download has completed or failed and has been collected, and
\* the export statistics have been printed and do not change any more; no probe is
\* in flight while a download is.
C27_NoCrossStrategyConcurrency ==
    /\ [](ProbingBegan =>
            /\ InFlight = {}
            /\ \A i \in Jobs : task[i] = "collected"
            /\ bpc = "returned"
            /\ summary = ExportSummaryLines(export_stats))
    /\ [](in_flight > 0 => InFlight = {})
    /\ [][ProbingBegan => export_stats' = export_stats]_vars

\* a probe is in flight after an export that downloaded a file
C27_Witness ==
    /\ in_flight > 0
    /\ bpc = "returned"
    /\ \E i \in Jobs : outcome[i].message = "Downloaded"

-----------------------------------------------------------------------------
(* Claims about GAV-scoped discovery, checked under SpecGav *)

IsQuery(k) == g_log[k].what = "query"

\* C28: every coordinate given is queried; the requests of one coordinate form a
\* chain in which the first carries no token and each further one carries the
\* token the page before it returned; a failed request ends the pagination of its
\* coordinate only; requests of different coordinates are separated by a sleep;
\* and the list returned holds, each once, exactly the paths the source served.
C28_GavScopedDiscovery ==
    /\ \A k \in DOMAIN g_log :
          IsQuery(k) =>
             /\ g_log[k].gav \in SetOf(gavs)
             /\ g_log[k].sent =
                   (IF k > 1 /\ IsQuery(k - 1) THEN g_log[k - 1].got ELSE NoToken)
             /\ (k > 1 /\ IsQuery(k - 1)) =>
                   /\ g_log[k - 1].gav = g_log[k].gav
                   /\ Truthy(g_log[k - 1].got)
                   /\ g_log[k - 1].got # "failed"
    /\ gpc = "done" =>
          /\ \A i \in DOMAIN gavs : \E k \in DOMAIN g_log : IsQuery(k) /\ g_log[k].gav = gavs[i]
          /\ SetOf(g_result) = g_seen
          /\ Len(g_result) = Cardinality(g_seen)

\* the first of two coordinates failed on its first request, and the second one
\* was queried and returned a path
C28_Witness ==
    /\ gpc = "done"
    /\ Len(gavs) = 2
    /\ g_log[1].got = "failed"
    /\ \E k \in DOMAIN g_log : IsQuery(k) /\ g_log[k].gav = gavs[2]
    /\ g_result # <<>>

\* C30: a delay step lies between any two consecutive page requests of the
\* per-coordinate pagination of GAV-scoped discovery, as in every paginated
\* discovery operation: no two page requests are issued back to back.
C30_InterPageDelay ==
    \A k \in DOMAIN g_log : (k > 1 /\ IsQuery(k)) => ~IsQuery(k - 1)

-----------------------------------------------------------------------------
(* Claims about the discrepancy report, checked under SpecRecon *)

\* run r combined the lists of both sources
BothReconciled(r) ==
    /\ pipeline # "sync_by_gav"
    /\ selection = "both"
    /\ rpc[r] # "discovered"

\* C29: when both sources are queried, the two sets reported are the paths of the
\* first source that the second lacks and the paths of the second that the first
\* lacks; they are disjoint, and with the paths both sources hold they partition
\* the paths of the reconciled list.
C29_DiscrepancyReport ==
    \A r \in Runs :
        BothReconciled(r) =>
            LET first == PathsOf(from_assets)
                second == PathsOf(from_components)
                shared == {p \in first : p \in second}
            IN  /\ report[r].assets_only = {p \in first : p \notin second}
                /\ report[r].components_only = {p \in second : p \notin first}
                /\ report[r].assets_only \cap report[r].components_only = {}
                /\ report[r].assets_only \cap shared = {}
                /\ report[r].components_only \cap shared = {}
                /\ report[r].assets_only \cup report[r].components_only \cup shared
                      = PathsOf(reconciled[r])

\* a run whose sources share a path and each hold a path of their own
C29_Witness ==
    /\ BothReconciled(1)
    /\ report[1].assets_only # {}
    /\ report[1].components_only # {}
    /\ PathsOf(from_assets) \cap PathsOf(from_components) # {}

-----------------------------------------------------------------------------
(* Claims about every paginated discovery operation, checked under SpecPaginated *)

\* a page request of one of the five source operations goes out in this step
PageRequestStep == dpc = "request" /\ dpc' = "waiting"

\* C32: in every paginated discovery operation the first request carries no
\* continuation token and every later request carries the token the response
\* before it returned, never one of an earlier response; the first request for a
\* coordinate carries no token, whatever the coordinate before it returned.
C32_TokenChaining ==
    /\ [][PageRequestStep =>
            /\ n_requests = 0 => sent_token' = NoToken
            /\ n_requests > 0 =>
                  sent_token' = continuation_token /\ Truthy(continuation_token)]_vars
    /\ [](\A k \in DOMAIN g_log :
            IsQuery(k) =>
               g_log[k].sent =
                  (IF k > 1 /\ IsQuery(k - 1) /\ g_log[k - 1].gav = g_log[k].gav
                   THEN g_log[k - 1].got ELSE NoToken))

\* a third page is requested with the token of the second, after two pages with
\* different tokens
C32_Witness ==
    /\ dpc = "waiting"
    /\ n_requests = 3
    /\ sent_token = "t2"
    /\ continuation_token = "t2"

-----------------------------------------------------------------------------
(* Claims about the order of completion in the export pool, checked under SpecB *)

\* the records classified Success: downloaded, not skipped
Exported == {i \in Jobs : ~Failed(i) /\ outcome[i].message # "Already exists"}

\* the records skipped because the file was there
Skipped == {i \in Jobs : ~Failed(i) /\ outcome[i].message = "Already exists"}

\* the sum of the declared sizes of a set of records
RECURSIVE DeclaredBytes(_)
DeclaredBytes(S) ==
    IF S = {} THEN 0
    ELSE LET i == CHOOSE k \in S : TRUE
         IN export_input[i].size + DeclaredBytes(S \ {i})

\* no two records of the input have the same path, hence the same destination
DistinctDestinations ==
    \A i, k \in Jobs : export_input[i].path = export_input[k].path => i = k

\* C37: for records with pairwise distinct destinations, once every future was
\* collected the counters and the set of failure entries are determined by the
\* outcomes of the records alone, whatever the order in which the workers
\* finished and were collected: success, failed and already_exists count the
\* records of each class, total_bytes is the sum of the declared sizes of the
\* exported records, and the failure list holds one entry per failed record.
C37_OrderIndependentStatistics ==
    (DistinctDestinations /\ bpc \in {"summary", "returned"} /\ Collected = Jobs) =>
        /\ export_stats.success = Cardinality(Exported)
        /\ export_stats.already_exists = Cardinality(Skipped)
        /\ export_stats.failed = Cardinality({i \in Jobs : Failed(i)})
        /\ export_stats.total_bytes = DeclaredBytes(Exported)
        /\ Len(export_stats.failed_items) = export_stats.failed
        /\ {export_stats.failed_items[k] : k \in DOMAIN export_stats.failed_items}
              = {FailureEntry(i) : i \in {k \in Jobs : Failed(k)}}

\* two records of different sizes were exported and the export returned
C37_WitnessBytes ==
    /\ bpc = "returned"
    /\ DistinctDestinations
    /\ Exported = {1, 2}
    /\ export_input[1].size = 2
    /\ export_input[2].size = 1
    /\ export_stats.total_bytes = 3

\* two records failed and the second of the input was collected first: the
\* failure list is in completion order, the final counters are the same
C37_Witness ==
    /\ bpc = "returned"
    /\ DistinctDestinations
    /\ Len(export_input) = 2
    /\ export_stats.failed = 2
    /\ export_stats.failed_items = <<FailureEntry(2), FailureEntry(1)>>

-----------------------------------------------------------------------------
(* Claims about a rejected download, checked under SpecDl *)

\* the worker has returned after its request was answered with another status
\* than 200
DownloadRejected ==
    /\ dlpc = "done"
    /\ dl_response.kind = "status"
    /\ dl_response.code # 200

\* C36: when the download request is answered with a status other than 200, the
\* worker returns a failure that names the status, and no file of the export
\* directory is created or changed: a file already at the destination keeps its
\* size and is not written.
C36_RejectedDownloadFrame ==
    DownloadRejected =>
        /\ ~dl_result.success
        /\ dl_result.message = "HTTP " \o ToString(dl_response.code)
        /\ fs = fs_before
        /\ ~fs[Target].written

\* a 404 for a record whose destination held a file of another size
C36_Witness ==
    /\ DownloadRejected
    /\ dl_response.code = 404
    /\ fs_before[Target].exists
    /\ fs[Target].size = 2
    /\ ExpectedSize(asset_info) = 1

-----------------------------------------------------------------------------
(* Claims about the validator's verdict, checked under SpecV *)

\* some path of the list answers 404
SomeAnswerMissing == \E k \in DOMAIN v_input : AnswersMissing(v_input[k])

\* C35: the validator reports completeness exactly when no probe answered 404;
\* probes that errored do not change the verdict, which is 'complete' even when
\* every probe errored; and no step of the validator changes the Strategy A
\* counters.
C35_ValidationVerdict ==
    /\ [](\A r \in Runs :
            v_returned[r] # NoReturn => (v_returned[r].is_complete <=> ~SomeAnswerMissing))
    /\ [][/\ total_artifacts' = total_artifacts
          /\ success_count' = success_count
          /\ failed_count' = failed_count
          /\ failed_paths' = failed_paths]_vars

\* a call on two paths returned 'complete' although both probes errored
C35_Witness ==
    /\ v_returned[1] # NoReturn
    /\ v_returned[1].is_complete
    /\ Len(v_returned[1].validation_errors) = 2
    /\ \A k \in DOMAIN v_input : AnswersErrored(v_input[k])

====
